---- MODULE Spec2Model ----
(***************************************************************************)
(* A model of MIFCraft (src/mifcraft.py): one MIF object (a construction   *)
(* session on one target file), the MIFWrite decorator that names, runs    *)
(* and commits every Specify-block method, the block methods themselves,   *)
(* and the 'with' protocol (__exit__ and validate).                        *)
(*                                                                         *)
(* A block method is an operator  F(self, name, kwargs)  that returns      *)
(*   [exc |-> the exception it raises (NoExc when it returns),             *)
(*    self |-> the MIF object with the side effects made up to that point, *)
(*    ret  |-> the list of lines it returns].                              *)
(* kwargs is a function from option names to values, as **kwargs is.       *)
(* Lengths are integers counting 1e-16 m, so that the two constants of     *)
(* carefulFloatMod (1E-16 and 5E-16) are the integers 1 and 5.  The lines  *)
(* of a block keep the header and the option names; the rendering of the   *)
(* numbers inside a line is left out.                                      *)
(***************************************************************************)
EXTENDS Integers, Sequences, FiniteSets, TLC

(***************************************************************************)
(* Bounds of the model.                                                    *)
(***************************************************************************)
\* calls of block methods in one behaviour of Spec
MaxCalls == 3

\* 1e-9 m in units of 1e-16 m
NM == 10000000

VARIABLES
    mif,      \* the attributes of the MIF object
    file,     \* the target file: does it exist, and the strings written to it
    pc,       \* "with": inside the with-block; "exited": __exit__ has run
    exit,     \* what __exit__ did
    last,     \* the latest block-method call and what came back to the caller
    returned, \* the names the calls have returned to the script so far
    ncalls,   \* number of block-method calls made so far
    other     \* a second MIF object on another file with its own last,
              \* returned and ncalls; None in a script with one session

vars == <<mif, file, pc, exit, last, returned, ncalls, other>>

(***************************************************************************)
(* Values.                                                                 *)
(***************************************************************************)
\* Python's None, where a name is expected
None == "<None>"

Exc(t, p, k) == [type |-> t, parameter |-> p, kind |-> k]
NoExc == Exc("none", "", "")

\* raise MIFException(parameter, error): kind tells the errors apart
MIFException(parameter, kind) == Exc("MIFException", parameter, kind)

\* UndefTokenMIFException(target, category, validOptions)
UndefTokenMIFException(target, category) == MIFException(target, "undefined " \o category)

\* kwargs[key] of a missing key
KeyError(key) == Exc("KeyError", key, "")

Has(kwargs, key) == key \in DOMAIN kwargs

\* kwargs.get(key) is truthy (the flags _noName, _noWrite, _noPadding)
Flag(kwargs, key) == Has(kwargs, key) /\ kwargs[key] = TRUE

\* kwargs.pop(key, None)
Pop(kwargs, key) == [k \in DOMAIN kwargs \ {key} |-> kwargs[k]]

Raise(self, e) == [exc |-> e, self |-> self, ret |-> <<>>]
Return(self, lines) == [exc |-> NoExc, self |-> self, ret |-> lines]

EmptyMap == [k \in {} |-> {}]

\* self.regions is a defaultdict(set): a missing key reads as the empty set
RegionsOf(self, atlas) ==
    IF atlas \in DOMAIN self.regions THEN self.regions[atlas] ELSE {}

\* "\n".join(lines)
RECURSIVE Join(_)
Join(lines) ==
    IF lines = <<>> THEN ""
    ELSE IF Len(lines) = 1 THEN lines[1]
    ELSE lines[1] \o "\n" \o Join(Tail(lines))

Header == "# MIF 2.1\n# Auto-generated by MIFCraft\n\n"

(***************************************************************************)
(* Utilities.                                                              *)
(***************************************************************************)
\* a check that looks at the axes in the order z, y, x
quickValidateExtent_zFirst(xmin, xmax, ymin, ymax, zmin, zmax) ==
    IF zmin > zmax THEN Exc("MIFException", "zmin, zmax", "invalid")
    ELSE IF ymin > ymax THEN Exc("MIFException", "ymin, ymax", "invalid")
    ELSE IF xmin > xmax THEN Exc("MIFException", "xmin, xmax", "invalid")
    ELSE Exc("none", "", "")

\* the exception quickValidateExtent raises, NoExc when it returns
quickValidateExtent(xmin, xmax, ymin, ymax, zmin, zmax) ==
    IF xmin > xmax THEN MIFException("xmin, xmax", "invalid")
    ELSE IF ymin > ymax THEN MIFException("ymin, ymax", "invalid")
    ELSE IF zmin > zmax THEN MIFException("zmin, zmax", "invalid")
    ELSE NoExc

(***************************************************************************)
(* MIF.__init__ and MIF.purgeFile.                                         *)
(***************************************************************************)
MIF__init__ ==
    [ labelsUsed |-> {}, reservedLabels |-> {},
      atlases |-> {}, atlasCoords |-> EmptyMap, regions |-> EmptyMap,
      vectorFields |-> {}, scalarFields |-> {},
      evolvers |-> <<>>, meshes |-> <<>>, drivers |-> <<>>,
      scripts |-> {}, stageCounts |-> {}, referencedFilenames |-> {},
      destinations |-> {}, scheduled |-> FALSE,
      hasFailed |-> FALSE ]

\* the file as __init__ leaves it: created (truncated), the header written
NewFile == [exists |-> TRUE, text |-> <<Header>>]

\* os.remove(self.filename)
Removed == [exists |-> FALSE, text |-> <<>>]

\* purgeFile is reached only from the try-block of MIFWrite, which is entered
\* only while hasFailed is false, that is while the file exists: os.remove
\* does not raise there.
purgeFile(self, f) ==
    [self |-> [self EXCEPT !.hasFailed = TRUE], file |-> Removed]

(***************************************************************************)
(* Atlases.                                                                *)
(***************************************************************************)
\* "xmin, xmax = kwargs[key]": KeyError without the key, ValueError when the
\* value does not unpack into two
RangeExc(kwargs, key) ==
    IF ~Has(kwargs, key) THEN KeyError(key)
    ELSE IF Len(kwargs[key]) # 2 THEN Exc("ValueError", key, "unpack")
    ELSE NoExc

\* the first exception of unpacking xrange, yrange and zrange, in that order
RangesExc(kwargs) ==
    IF RangeExc(kwargs, "xrange").type # "none" THEN RangeExc(kwargs, "xrange")
    ELSE IF RangeExc(kwargs, "yrange").type # "none" THEN RangeExc(kwargs, "yrange")
    ELSE RangeExc(kwargs, "zrange")

Coords(kwargs) ==
    << kwargs["xrange"][1], kwargs["xrange"][2],
       kwargs["yrange"][1], kwargs["yrange"][2],
       kwargs["zrange"][1], kwargs["zrange"][2] >>

\* a check of the x axis alone
ExtentExc_xOnly(c) == quickValidateExtent(c[1], c[2], c[1], c[2], c[1], c[2])

ExtentExc(c) == quickValidateExtent(c[1], c[2], c[3], c[4], c[5], c[6])

RangeLines == <<"    xrange", "    yrange", "    zrange">>

BoxAtlas(self, name, kwargs) ==
    IF RangesExc(kwargs).type # "none" THEN Raise(self, RangesExc(kwargs))
    ELSE IF ExtentExc(Coords(kwargs)).type # "none"
         THEN Raise(self, ExtentExc(Coords(kwargs)))
    ELSE Return([self EXCEPT !.atlases = @ \cup {name},
                             !.atlasCoords = (name :> Coords(kwargs)) @@ @],
                <<"Specify Oxs_BoxAtlas:" \o name \o " {">> \o RangeLines \o <<"}">>)

\* as BoxAtlas, but no entry of atlasCoords is written
EllipsoidAtlas(self, name, kwargs) ==
    IF RangesExc(kwargs).type # "none" THEN Raise(self, RangesExc(kwargs))
    ELSE IF ExtentExc(Coords(kwargs)).type # "none"
         THEN Raise(self, ExtentExc(Coords(kwargs)))
    ELSE Return([self EXCEPT !.atlases = @ \cup {name}],
                <<"Specify Oxs_EllipsoidAtlas:" \o name \o " {">> \o RangeLines \o <<"}">>)

\* min(...) and max(...)
SetMin(S) == CHOOSE m \in S : \A n \in S : m <= n
SetMax(S) == CHOOSE m \in S : \A n \in S : m >= n

\* the elements of a list
Elements(list) == {list[i] : i \in DOMAIN list}

\* MultiAtlas, one axis: the exception of unpacking the range the caller
\* gave or, without one, of min(map(lambda atlas: self.atlasCoords[atlas][..],
\* atlases)): ValueError for no atlases, KeyError for the first atlas that
\* has no coordinates
AxisExc(self, kwargs, key) ==
    LET atlases == kwargs["atlases"]
        missing == {i \in DOMAIN atlases : atlases[i] \notin DOMAIN self.atlasCoords}
    IN  IF Has(kwargs, key)
        THEN IF Len(kwargs[key]) # 2 THEN Exc("ValueError", key, "unpack") ELSE NoExc
        ELSE IF atlases = <<>> THEN Exc("ValueError", key, "min of empty")
        ELSE IF missing # {} THEN KeyError(atlases[SetMin(missing)])
        ELSE NoExc

\* MultiAtlas: (xmin, xmax, ymin, ymax, zmin, zmax), each axis the caller's
\* range or the hull of the constituent atlases
MultiCoords(self, kwargs) ==
    LET at == Elements(kwargs["atlases"])
        lo(key, i) == IF Has(kwargs, key) THEN kwargs[key][1]
                      ELSE SetMin({self.atlasCoords[a][i] : a \in at})
        hi(key, i) == IF Has(kwargs, key) THEN kwargs[key][2]
                      ELSE SetMax({self.atlasCoords[a][i] : a \in at})
    IN  << lo("xrange", 1), hi("xrange", 2), lo("yrange", 3), hi("yrange", 4),
           lo("zrange", 5), hi("zrange", 6) >>

\* self.regions with the constituent atlases alone as regions of name
MultiRegions_membersOnly(self, name, at) ==
    IF at = {} THEN self.regions
    ELSE (name :> at) @@ [a \in at |-> RegionsOf(self, a)] @@ self.regions

\* self.regions with name also recorded as a region of each constituent
MultiRegions_backlinks(self, name, at) ==
    IF at = {} THEN self.regions
    ELSE (name :> (RegionsOf(self, name) \cup at \cup UNION {RegionsOf(self, a) : a \in at}))
         @@ [a \in at |-> RegionsOf(self, a) \cup {name}] @@ self.regions

\* self.regions after "for atlas in atlases: self.regions[name].add(atlas);
\* for subregion in self.regions[atlas]: self.regions[name].add(subregion)"
MultiRegions(self, name, at) ==
    IF at = {} THEN self.regions
    ELSE (name :> (RegionsOf(self, name) \cup at \cup UNION {RegionsOf(self, a) : a \in at}))
         @@ [a \in at |-> RegionsOf(self, a)] @@ self.regions

MultiAtlas(self, name, kwargs) ==
    IF ~Has(kwargs, "atlases") THEN Raise(self, KeyError("atlases"))
    ELSE LET atlases == kwargs["atlases"]
             undefined == {i \in DOMAIN atlases : atlases[i] \notin self.atlases}
         IN
    \* the atlases before the first undefined one are marked used
    IF undefined # {}
    THEN Raise([self EXCEPT !.labelsUsed =
                    @ \cup {atlases[j] : j \in 1..(SetMin(undefined) - 1)}],
               UndefTokenMIFException("atlas", "atlas"))
    ELSE LET at == Elements(atlases)
             \* self.regions[name] and self.regions[atlas] are defaultdict reads
             registered ==
                 [self EXCEPT !.labelsUsed = @ \cup at,
                              !.atlases = @ \cup {name},
                              !.regions = MultiRegions(self, name, at)]
             lines(key) == IF Has(kwargs, key) THEN <<"    " \o key>> ELSE <<>>
         IN
    IF AxisExc(self, kwargs, "xrange").type # "none"
    THEN Raise(registered, AxisExc(self, kwargs, "xrange"))
    ELSE IF AxisExc(self, kwargs, "yrange").type # "none"
    THEN Raise(registered, AxisExc(self, kwargs, "yrange"))
    ELSE IF AxisExc(self, kwargs, "zrange").type # "none"
    THEN Raise(registered, AxisExc(self, kwargs, "zrange"))
    ELSE IF ExtentExc(MultiCoords(self, kwargs)).type # "none"
    THEN Raise(registered, ExtentExc(MultiCoords(self, kwargs)))
    ELSE Return([registered EXCEPT !.atlasCoords = (name :> MultiCoords(self, kwargs)) @@ @],
                <<"Specify Oxs_MultiAtlas:" \o name \o " {">>
                \o [i \in DOMAIN atlases |-> "    atlas " \o atlases[i]]
                \o lines("xrange") \o lines("yrange") \o lines("zrange") \o <<"}">>)

\* colormap is a list of (color, regionName) pairs
ColormapRegions(colormap) == {colormap[i][2] : i \in DOMAIN colormap}

ImageAtlas(self, name, kwargs) ==
    IF RangesExc(kwargs).type # "none" THEN Raise(self, RangesExc(kwargs))
    ELSE IF ExtentExc(Coords(kwargs)).type # "none"
         THEN Raise(self, ExtentExc(Coords(kwargs)))
    ELSE IF ~Has(kwargs, "viewplane") THEN Raise(self, KeyError("viewplane"))
    ELSE IF kwargs["viewplane"] \notin {"xy", "zx", "yz"}
         THEN Raise(self, MIFException("viewplane", "invalid"))
    ELSE IF ~Has(kwargs, "image") THEN Raise(self, KeyError("image"))
    ELSE IF ~Has(kwargs, "colormap") THEN Raise(self, KeyError("colormap"))
    ELSE LET registered == [self EXCEPT !.atlases = @ \cup {name},
                                        !.atlasCoords = (name :> Coords(kwargs)) @@ @]
         IN  \* max(map(..., colormap)) of an empty colormap
             IF kwargs["colormap"] = <<>>
             THEN Raise(registered, Exc("ValueError", "colormap", "max of empty"))
             ELSE Return([registered EXCEPT !.regions =
                             (name :> (RegionsOf(self, name)
                                       \cup ColormapRegions(kwargs["colormap"]))) @@ @],
                         <<"Specify Oxs_ImageAtlas:" \o name \o " {">> \o RangeLines
                         \o <<"    viewplane", "    image", "    colormap {", "    }",
                              "    matcherror", "}">>)

(***************************************************************************)
(* Meshes.                                                                 *)
(***************************************************************************)
\* carefulFloatMod(x, y): "True if there is a significant remainder";
\* sign(x) = x/abs(x) divides by zero when x = 0, and so does % when y = 0
carefulFloatMod(x, y) ==
    IF x = 0 \/ y = 0 THEN [exc |-> Exc("ZeroDivisionError", "", ""), value |-> FALSE]
    ELSE LET sign == IF x > 0 THEN 1 ELSE -1
             r == (x + 1 * sign) % y
         IN  [exc |-> NoExc, value |-> (IF r < 0 THEN -r ELSE r) > 5]

\* the extent RectangularMesh divides: the atlas's own, or for the atlas named
\* "universe" the hull of every atlas
MeshExtent(self, atlas) ==
    IF atlas = "universe"
    THEN << SetMin({self.atlasCoords[at][1] : at \in self.atlases}),
            SetMax({self.atlasCoords[at][2] : at \in self.atlases}),
            SetMin({self.atlasCoords[at][3] : at \in self.atlases}),
            SetMax({self.atlasCoords[at][4] : at \in self.atlases}),
            SetMin({self.atlasCoords[at][5] : at \in self.atlases}),
            SetMax({self.atlasCoords[at][6] : at \in self.atlases}) >>
    ELSE self.atlasCoords[atlas]

\* the atlas whose self.atlasCoords lookup raises KeyError, None when none does
MissingCoords(self, atlas) ==
    IF atlas = "universe"
    THEN IF self.atlases \subseteq DOMAIN self.atlasCoords THEN None
         ELSE CHOOSE at \in self.atlases : at \notin DOMAIN self.atlasCoords
    ELSE IF atlas \in DOMAIN self.atlasCoords THEN None ELSE atlas

\* the three divisibility checks made in the order z, y, x
StepExc_zFirst(c, cellsize) ==
    LET mx == carefulFloatMod(c[2] - c[1], cellsize[1])
        my == carefulFloatMod(c[4] - c[3], cellsize[2])
        mz == carefulFloatMod(c[6] - c[5], cellsize[3])
    IN  IF mz.exc.type # "none" THEN mz.exc
        ELSE IF mz.value THEN MIFException("zstep", "invalid")
        ELSE IF my.exc.type # "none" THEN my.exc
        ELSE IF my.value THEN MIFException("ystep", "invalid")
        ELSE IF mx.exc.type # "none" THEN mx.exc
        ELSE IF mx.value THEN MIFException("xstep", "invalid")
        ELSE NoExc

\* the three divisibility checks in the order x, y, z
StepExc(c, cellsize) ==
    LET mx == carefulFloatMod(c[2] - c[1], cellsize[1])
        my == carefulFloatMod(c[4] - c[3], cellsize[2])
        mz == carefulFloatMod(c[6] - c[5], cellsize[3])
    IN  IF mx.exc.type # "none" THEN mx.exc
        ELSE IF mx.value THEN MIFException("xstep", "invalid")
        ELSE IF my.exc.type # "none" THEN my.exc
        ELSE IF my.value THEN MIFException("ystep", "invalid")
        ELSE IF mz.exc.type # "none" THEN mz.exc
        ELSE IF mz.value THEN MIFException("zstep", "invalid")
        ELSE NoExc

RectangularMesh(self, name, kwargs) ==
    IF ~Has(kwargs, "cellsize") THEN Raise(self, KeyError("cellsize"))
    ELSE IF Len(kwargs["cellsize"]) # 3
         THEN Raise(self, Exc("ValueError", "cellsize", "unpack"))
    ELSE IF ~Has(kwargs, "atlas") THEN Raise(self, KeyError("atlas"))
    ELSE IF kwargs["atlas"] \notin self.atlases
         THEN Raise(self, UndefTokenMIFException("atlas", "atlas"))
    ELSE LET atlas == kwargs["atlas"]
             used == [self EXCEPT !.labelsUsed = @ \cup {atlas}]
         IN  IF MissingCoords(self, atlas) # None
             THEN Raise(used, KeyError(MissingCoords(self, atlas)))
             ELSE IF StepExc(MeshExtent(self, atlas), kwargs["cellsize"]).type # "none"
             THEN Raise(used, StepExc(MeshExtent(self, atlas), kwargs["cellsize"]))
             \* the warning's format string has one %s for two values
             ELSE IF self.meshes # <<>>
             THEN Raise(used, Exc("TypeError", "", "not all arguments converted"))
             ELSE Return([used EXCEPT !.meshes = Append(@, name)],
                         <<"Specify Oxs_RectangularMesh:" \o name \o " {",
                           "    cellsize", "    atlas " \o atlas, "}">>)

(***************************************************************************)
(* Energies.                                                               *)
(***************************************************************************)
\* val and typestring are assigned only under "A" or "lex"
UniformExchange(self, name, kwargs) ==
    IF Has(kwargs, "A")
    THEN Return(self, <<"Specify Oxs_UniformExchange:" \o name \o " {",
                        "    A " \o ToString(kwargs["A"]), "}">>)
    ELSE IF Has(kwargs, "lex")
    THEN Return(self, <<"Specify Oxs_UniformExchange:" \o name \o " {",
                        "    lex " \o ToString(kwargs["lex"]), "}">>)
    ELSE Raise(self, Exc("UnboundLocalError", "typestring", ""))

\* stages += brick[6] over the bricks of Hrange
RECURSIVE Stages(_)
Stages(Hrange) ==
    IF Hrange = <<>> THEN 0 ELSE Hrange[1][7] + Stages(Tail(Hrange))

\* Hrange is a list of bricks (x, y, z, X, Y, Z, steps); max() of no brick
\* raises ValueError
UZeeman(self, name, kwargs) ==
    IF ~Has(kwargs, "Hrange") THEN Raise(self, KeyError("Hrange"))
    ELSE IF kwargs["Hrange"] = <<>>
    THEN Raise(self, Exc("ValueError", "Hrange", "max of empty"))
    ELSE Return([self EXCEPT !.stageCounts = @ \cup {Stages(kwargs["Hrange"])}],
                <<"Specify Oxs_UZeeman:" \o name \o " {", "    multiplier", "    Hrange {">>
                \o [i \in DOMAIN kwargs["Hrange"] |-> "        brick"]
                \o <<"    }", "}">>)

\* Python 2: "file" is a builtin, so the loop over files runs; the names
\* "script" is unbound; "filetable.append[...]" subscripts a method.
StageZeeman(self, name, kwargs) ==
    IF Has(kwargs, "script") /\ Has(kwargs, "files")
    THEN Raise(self, MIFException("script AND files", "invalid"))
    ELSE IF Has(kwargs, "script") THEN Raise(self, Exc("NameError", "script", ""))
    ELSE IF ~Has(kwargs, "files") THEN Raise(self, KeyError("files"))
    ELSE Raise([self EXCEPT !.referencedFilenames =
                    @ \cup {kwargs["files"][i] : i \in DOMAIN kwargs["files"]}],
               Exc("TypeError", "", "not subscriptable"))

(***************************************************************************)
(* Scalar and vector fields, scripts.                                      *)
(***************************************************************************)
UniformScalarField(self, name, kwargs) ==
    LET registered == [self EXCEPT !.scalarFields = @ \cup {name}]
    IN  IF ~Has(kwargs, "value") THEN Raise(registered, KeyError("value"))
        ELSE Return(registered,
                    <<"Specify Oxs_UniformScalarField:" \o name \o " {", "    value", "}">>)

\* "if name:" of a name that is None or empty
Truthy(name) == name # None /\ name # ""

RandomVectorField(self, name, kwargs) ==
    IF ~Has(kwargs, "min_norm") THEN Raise(self, KeyError("min_norm"))
    ELSE IF ~Has(kwargs, "max_norm") THEN Raise(self, KeyError("max_norm"))
    ELSE IF kwargs["max_norm"] < kwargs["min_norm"]
         THEN Raise(self, MIFException("min_norm, max_norm", "invalid"))
    ELSE IF Has(kwargs, "cache_grid")
            /\ kwargs["cache_grid"] \notin {self.meshes[i] : i \in DOMAIN self.meshes}
         THEN Raise(self, UndefTokenMIFException("cache_grid", "mesh"))
    ELSE Return(IF Truthy(name) THEN [self EXCEPT !.vectorFields = @ \cup {name}] ELSE self,
                <<"Specify Oxs_RandomVectorField:" \o name \o " {",
                  "    min_norm", "    max_norm">>
                \o (IF Has(kwargs, "cache_grid")
                    THEN <<"    cache_grid " \o kwargs["cache_grid"]>> ELSE <<>>)
                \o <<"}">>)

MaskVectorField(self, name, kwargs) ==
    IF ~Has(kwargs, "mask") THEN Raise(self, KeyError("mask"))
    ELSE IF kwargs["mask"] \notin self.scalarFields
         THEN Raise(self, UndefTokenMIFException("mask", "scalar field"))
    ELSE IF ~Has(kwargs, "field") THEN Raise(self, KeyError("field"))
    ELSE IF kwargs["field"] \notin self.vectorFields
         THEN Raise(self, UndefTokenMIFException("field", "vector field"))
    ELSE Return([self EXCEPT !.vectorFields = @ \cup {name}],
                <<"Specify Oxs_MaskVectorField:" \o name \o " {",
                  "    mask " \o kwargs["mask"], "    field " \o kwargs["field"], "}">>)

\* A line of a script is [text, has]: has holds the words of interest that
\* occur in the text (what "word in line" finds).
Proc(self, name, kwargs) ==
    IF ~Has(kwargs, "args") THEN Raise(self, KeyError("args"))
    ELSE IF ~Has(kwargs, "lines") THEN Raise(self, KeyError("lines"))
    ELSE IF \A i \in DOMAIN kwargs["lines"] : "return" \notin kwargs["lines"][i].has
         THEN Raise(self, MIFException("lines", "invalid"))
    ELSE Return([self EXCEPT !.scripts = @ \cup {name}],
                <<"proc " \o name \o " {">>
                \o [i \in DOMAIN kwargs["lines"] |-> "    " \o kwargs["lines"][i].text]
                \o <<"}">>)

\* The loop of ScriptVectorField over script_args from position i on, as far
\* as it checks and marks fields: [exc, used] with used the names added to
\* labelsUsed before the loop ends or raises.  Both field lists are looked
\* up in self.scalarFields.
RECURSIVE FieldListCheck(_, _, _, _)
FieldListCheck(self, fields, target, j) ==
    IF j > Len(fields) THEN [exc |-> NoExc, used |-> {}]
    ELSE IF fields[j] \notin self.scalarFields
         THEN [exc |-> UndefTokenMIFException(target, SubSeq(target, 1, 6) \o " field"),
               used |-> {}]
    ELSE LET rest == FieldListCheck(self, fields, target, j + 1)
         IN  [exc |-> rest.exc, used |-> {fields[j]} \cup rest.used]

RECURSIVE ScriptArgsFields(_, _, _)
ScriptArgsFields(self, kwargs, i) ==
    LET script_args == kwargs["script_args"] IN
    IF i > Len(script_args) THEN [exc |-> NoExc, used |-> {}]
    ELSE IF script_args[i] \notin {"scalar_fields", "vector_fields"}
         THEN ScriptArgsFields(self, kwargs, i + 1)
    ELSE IF ~Has(kwargs, script_args[i])
         THEN [exc |-> MIFException(script_args[i], "invalid"), used |-> {}]
    ELSE LET target == IF script_args[i] = "scalar_fields"
                       THEN "scalar_field" ELSE "vector_field"
             here == FieldListCheck(self, kwargs[script_args[i]], target, 1)
             rest == ScriptArgsFields(self, kwargs, i + 1)
         IN  IF here.exc.type # "none" THEN here
             ELSE [exc |-> rest.exc, used |-> here.used \cup rest.used]

ScriptArgNames == {"relpt", "rawpt", "minpt", "maxpt", "span", "scalar_fields", "vector_fields"}

\* the first script_args entry that is unknown or repeated: its exception
ScriptArgsExc(script_args) ==
    IF \E i \in DOMAIN script_args :
           script_args[i] \notin ScriptArgNames
           \/ \E k \in 1..(i - 1) : script_args[k] = script_args[i]
    THEN MIFException("script_args", "invalid")
    ELSE NoExc

ScriptVectorField(self, name, kwargs) ==
    IF ~Has(kwargs, "script") THEN Raise(self, KeyError("script"))
    ELSE IF kwargs["script"] \notin self.scripts
         THEN Raise(self, UndefTokenMIFException("script", "script"))
    ELSE LET kw == IF Has(kwargs, "script_args") THEN kwargs
                   ELSE ("script_args" :> <<"relpt">>) @@ kwargs
             fields == ScriptArgsFields(self, kw, 1)
             marked == [self EXCEPT !.labelsUsed = @ \cup fields.used]
         IN  IF ScriptArgsExc(kw["script_args"]).type # "none"
             THEN Raise(self, ScriptArgsExc(kw["script_args"]))
             ELSE IF fields.exc.type # "none" THEN Raise(marked, fields.exc)
             ELSE IF Has(kwargs, "atlas")
             THEN IF kwargs["atlas"] \notin self.atlases
                  THEN Raise(marked, UndefTokenMIFException("atlas", "atlas"))
                  ELSE Return([marked EXCEPT !.labelsUsed = @ \cup {kwargs["atlas"]},
                                             !.vectorFields = @ \cup {name}],
                              <<"Specify Oxs_ScriptVectorField:" \o name \o " {",
                                "    script " \o kwargs["script"], "    script_args",
                                "    atlas " \o kwargs["atlas"], "}">>)
             ELSE IF Has(kwargs, "xrange") /\ Has(kwargs, "yrange") /\ Has(kwargs, "zrange")
             THEN IF RangesExc(kwargs).type # "none" THEN Raise(marked, RangesExc(kwargs))
                  ELSE IF ExtentExc(Coords(kwargs)).type # "none"
                  THEN Raise(marked, ExtentExc(Coords(kwargs)))
                  ELSE Return([marked EXCEPT !.vectorFields = @ \cup {name}],
                              <<"Specify Oxs_ScriptVectorField:" \o name \o " {",
                                "    script " \o kwargs["script"], "    script_args">>
                              \o RangeLines \o <<"}">>)
             ELSE Raise(marked, MIFException("atlas or xrange/yrange/zrange", "invalid"))

(***************************************************************************)
(* Evolvers.                                                               *)
(***************************************************************************)
EvolverNames(self) == {self.evolvers[i][1] : i \in DOMAIN self.evolvers}

\* fixed_spins is (atlas, [region, ...]); the first listed region that is not
\* a region of the atlas raises
FixedSpinsExc(self, fixed_spins) ==
    IF \E i \in DOMAIN fixed_spins[2] : fixed_spins[2][i] \notin RegionsOf(self, fixed_spins[1])
    THEN UndefTokenMIFException("region", "region")
    ELSE NoExc

\* step_headroom counts hundredths: "0 < step_headroom < 1" is 0 < h < 100
EulerEvolve(self, name, kwargs) ==
    IF Has(kwargs, "gamma_LL") /\ Has(kwargs, "gamma_G")
    THEN Raise(self, MIFException("gamma_LL AND gamma_G", "invalid"))
    ELSE IF Has(kwargs, "gamma_G") /\ ~Has(kwargs, "G") THEN Raise(self, KeyError("G"))
    ELSE IF Has(kwargs, "do_precess") /\ kwargs["do_precess"] \notin {0, 1}
         THEN Raise(self, MIFException("do_precess", "invalid"))
    ELSE IF Has(kwargs, "min_timestep") # Has(kwargs, "max_timestep")
         THEN Raise(self, MIFException("min_timestep AND max_timestep", "invalid"))
    ELSE LET \* self.regions[atlas], read for the first listed region, is a
             \* defaultdict read
             marked == IF Has(kwargs, "fixed_spins")
                       THEN [self EXCEPT !.labelsUsed = @ \cup {kwargs["fixed_spins"][1]},
                                         !.regions =
                                             IF kwargs["fixed_spins"][2] = <<>> THEN @
                                             ELSE (kwargs["fixed_spins"][1]
                                                   :> RegionsOf(self, kwargs["fixed_spins"][1])) @@ @]
                       ELSE self
         IN  IF Has(kwargs, "fixed_spins")
                /\ FixedSpinsExc(self, kwargs["fixed_spins"]).type # "none"
             THEN Raise(marked, FixedSpinsExc(self, kwargs["fixed_spins"]))
             ELSE IF Has(kwargs, "step_headroom")
                     /\ ~(0 < kwargs["step_headroom"] /\ kwargs["step_headroom"] < 100)
             THEN Raise(marked, MIFException("step_headroom", "invalid"))
             ELSE Return(IF Truthy(name)
                         THEN [marked EXCEPT !.evolvers = Append(@, <<name, "TIME">>)]
                         ELSE marked,
                         <<"Specify Oxs_EulerEvolve:" \o name \o " {", "    alpha",
                           "    do_precess">>
                         \o (IF Has(kwargs, "fixed_spins")
                             THEN <<"    fixed_spins { " \o kwargs["fixed_spins"][1], "    }">>
                             ELSE <<>>)
                         \o <<"}">>)

\* "retWork.append["}"]" subscripts a method, so the registration under it
\* is never reached
CGEvolve(self, name, kwargs) ==
    IF Has(kwargs, "method") /\ kwargs["method"] \notin {"Fletcher-Reeves", "Polak-Ribiere"}
    THEN Raise(self, MIFException("method", "invalid"))
    \* here the regions are fixed_spins[1:], and the atlas is not marked used
    ELSE IF Has(kwargs, "fixed_spins")
            /\ \E i \in 2..Len(kwargs["fixed_spins"]) :
                   kwargs["fixed_spins"][i] \notin RegionsOf(self, kwargs["fixed_spins"][1])
    THEN Raise([self EXCEPT !.regions = (kwargs["fixed_spins"][1]
                                         :> RegionsOf(self, kwargs["fixed_spins"][1])) @@ @],
               UndefTokenMIFException("region", "region"))
    ELSE Raise(IF Has(kwargs, "fixed_spins") /\ Len(kwargs["fixed_spins"]) > 1
               THEN [self EXCEPT !.regions = (kwargs["fixed_spins"][1]
                                              :> RegionsOf(self, kwargs["fixed_spins"][1])) @@ @]
               ELSE self,
               Exc("TypeError", "", "not subscriptable"))

(***************************************************************************)
(* Drivers.                                                                *)
(***************************************************************************)
MeshNames(self) == {self.meshes[i] : i \in DOMAIN self.meshes}

\* the optional settings both drivers validate one after the other;
\* vfof tells whether vector_field_output_format is checked (MinDriver) or
\* not (TimeDriver, where the test is disabled by "0 and")
DriverOptionExc(kwargs, vfof) ==
    IF Has(kwargs, "checkpoint_interval")
       /\ ~(kwargs["checkpoint_interval"] = -1 \/ kwargs["checkpoint_interval"] >= 0)
    THEN MIFException("checkpoint_interval", "invalid")
    ELSE IF Has(kwargs, "checkpoint_cleanup")
            /\ kwargs["checkpoint_cleanup"] \notin {"normal", "done_only", "never"}
    THEN MIFException("checkpoint_cleanup", "invalid")
    ELSE IF Has(kwargs, "normalize_aveM_output")
            /\ kwargs["normalize_aveM_output"] \notin {0, 1}
    THEN MIFException("normalize_aveM_output", "invalid")
    ELSE IF vfof /\ Has(kwargs, "vector_field_output_format")
            /\ kwargs["vector_field_output_format"] \notin {"text", "binary 4", "binary 8"}
    THEN MIFException("vector_field_output_format", "invalid")
    ELSE IF Has(kwargs, "report_max_spin_angle")
            /\ kwargs["report_max_spin_angle"] \notin {0, 1}
    THEN MIFException("report_max_spin_angle", "invalid")
    ELSE IF Has(kwargs, "total_iteration_limit") /\ ~(kwargs["total_iteration_limit"] >= 0)
    THEN MIFException("total_iteration_limit", "invalid")
    ELSE NoExc

\* the stage_count / stage_count_check part; unbound is the exception that
\* reading the variable stage_count raises where it was never assigned
StageCountExc(self, kwargs, unbound, unboundWithoutCheck) ==
    IF Has(kwargs, "stage_count_check") /\ kwargs["stage_count_check"] # 0
    THEN IF ~Has(kwargs, "stage_count") THEN KeyError("stage_count")
         ELSE IF ~(kwargs["stage_count"] > 0) THEN MIFException("stage_count", "invalid")
         ELSE IF self.stageCounts = {} THEN Exc("ValueError", "stageCounts", "max of empty")
         ELSE IF kwargs["stage_count"] < SetMax(self.stageCounts)
         THEN MIFException("stage_count", "invalid")
         ELSE unbound
    ELSE IF Has(kwargs, "stage_count")
    THEN IF ~(kwargs["stage_count"] > 0) THEN MIFException("stage_count", "invalid")
         ELSE unboundWithoutCheck
    ELSE NoExc

\* the stopping criteria, in the order given, each a single number
RECURSIVE StoppingExc(_, _)
StoppingExc(kwargs, criteria) ==
    IF criteria = <<>> THEN NoExc
    ELSE IF Has(kwargs, Head(criteria)) /\ kwargs[Head(criteria)] < 0
    THEN MIFException(Head(criteria), "invalid")
    ELSE StoppingExc(kwargs, Tail(criteria))

\* Ms and m0, looked up and marked used one after the other
MsM0(self, kwargs) ==
    IF ~Has(kwargs, "Ms") THEN Raise(self, KeyError("Ms"))
    ELSE IF kwargs["Ms"] \notin self.scalarFields
         THEN Raise(self, UndefTokenMIFException("Ms", "scalar field"))
    ELSE LET ms == [self EXCEPT !.labelsUsed = @ \cup {kwargs["Ms"]}]
         IN  IF ~Has(kwargs, "m0") THEN Raise(ms, KeyError("m0"))
             ELSE IF kwargs["m0"] \notin self.vectorFields
             THEN Raise(ms, UndefTokenMIFException("m0", "vector field"))
             ELSE Return([ms EXCEPT !.labelsUsed = @ \cup {kwargs["m0"]}],
                         <<"    Ms " \o kwargs["Ms"], "    m0 " \o kwargs["m0"]>>)

\* an "evolver" part that has no default: kwargs["evolver"] of a call that
\* names no evolver
TimeDriverEvolverExc_noDefault(self, kwargs) ==
    IF Has(kwargs, "evolver")
    THEN IF kwargs["evolver"] \notin EvolverNames(self)
         THEN UndefTokenMIFException("evolver", "evolver")
         ELSE NoExc
    ELSE KeyError("evolver")

\* the exception of the "evolver" part of TimeDriver
TimeDriverEvolverExc(self, kwargs) ==
    IF Has(kwargs, "evolver")
    THEN IF kwargs["evolver"] \notin EvolverNames(self)
         THEN UndefTokenMIFException("evolver", "evolver")
         ELSE IF \A i \in DOMAIN self.evolvers : self.evolvers[i] # <<kwargs["evolver"], "TIME">>
         THEN MIFException("evolver", "invalid")
         ELSE NoExc
    ELSE IF self.evolvers = <<>> THEN MIFException("evolver", "none defined")
    ELSE NoExc

\* evolver[0]: of a name given by the caller its first character, of the
\* default self.evolvers[0] its name
TimeDriverEvolver0(self, kwargs) ==
    IF Has(kwargs, "evolver") THEN SubSeq(kwargs["evolver"], 1, 1)
    ELSE self.evolvers[1][1]

MeshExc(self, kwargs) ==
    IF Has(kwargs, "mesh")
    THEN IF kwargs["mesh"] \notin MeshNames(self)
         THEN UndefTokenMIFException("mesh", "mesh") ELSE NoExc
    ELSE IF self.meshes = <<>> THEN MIFException("mesh", "none defined")
    ELSE NoExc

TimeDriver(self, name, kwargs) ==
    IF TimeDriverEvolverExc(self, kwargs).type # "none"
    THEN Raise(self, TimeDriverEvolverExc(self, kwargs))
    ELSE LET evolver0 == TimeDriverEvolver0(self, kwargs)
             s1 == [self EXCEPT !.labelsUsed = @ \cup {evolver0}]
         IN
    IF MeshExc(self, kwargs).type # "none" THEN Raise(s1, MeshExc(self, kwargs))
    ELSE LET mesh == IF Has(kwargs, "mesh") THEN kwargs["mesh"] ELSE self.meshes[1]
             s2 == [s1 EXCEPT !.labelsUsed = @ \cup {mesh}]
             f == MsM0(s2, kwargs)
             stage == StageCountExc(self, kwargs,
                                    Exc("UnboundLocalError", "stage_count", ""), NoExc)
             stop == StoppingExc(kwargs,
                                 <<"stopping_dm_dt", "stopping_time", "stage_iteration_limit">>)
         IN
    IF f.exc.type # "none" THEN f
    ELSE IF DriverOptionExc(kwargs, FALSE).type # "none"
         THEN Raise(f.self, DriverOptionExc(kwargs, FALSE))
    ELSE IF stage.type # "none" THEN Raise(f.self, stage)
    ELSE IF stop.type # "none" THEN Raise(f.self, stop)
    ELSE Return([f.self EXCEPT !.drivers = Append(@, name)],
                <<"Specify Oxs_TimeDriver:" \o name \o " {",
                  "    evolver " \o evolver0, "    mesh " \o mesh>>
                \o f.ret \o <<"    basename", "}">>)

\* "evolver in self.evolvers" looks a name up among [name, mode] pairs, and
\* "self.mesh" is no attribute of MIF
MinDriver(self, name, kwargs) ==
    IF Has(kwargs, "evolver") THEN Raise(self, UndefTokenMIFException("evolver", "evolver"))
    ELSE IF self.evolvers = <<>> THEN Raise(self, MIFException("evolver", "none defined"))
    ELSE IF MeshExc(self, kwargs).type # "none" THEN Raise(self, MeshExc(self, kwargs))
    ELSE IF ~Has(kwargs, "mesh") THEN Raise(self, Exc("AttributeError", "mesh", ""))
    ELSE LET f == MsM0(self, kwargs)
             stage == StageCountExc(self, kwargs, Exc("NameError", "stage_count", ""),
                                    Exc("NameError", "stage_count", ""))
             stop == StoppingExc(kwargs, <<"stopping_mxHxm", "stage_iteration_limit">>)
         IN
    IF f.exc.type # "none" THEN f
    ELSE IF DriverOptionExc(kwargs, TRUE).type # "none"
         THEN Raise(f.self, DriverOptionExc(kwargs, TRUE))
    ELSE IF stage.type # "none" THEN Raise(f.self, stage)
    ELSE IF stop.type # "none" THEN Raise(f.self, stop)
    ELSE Return([f.self EXCEPT !.drivers = Append(@, name)],
                <<"Specify Oxs_MinDriver:" \o name \o " {",
                  "    evolver " \o self.evolvers[1][1], "    mesh " \o kwargs["mesh"]>>
                \o f.ret \o <<"    basename", "}">>)

(***************************************************************************)
(* Schedules and destinations.                                             *)
(***************************************************************************)
Destination(self, name, kwargs) ==
    IF ~Has(kwargs, "label") THEN Raise(self, KeyError("label"))
    ELSE IF ~Has(kwargs, "type") THEN Raise(self, KeyError("type"))
    ELSE IF kwargs["type"] \notin {"mmDisp", "mmGraph", "mmArchive", "mmDataTable"}
    THEN Raise(self, MIFException("type", "invalid"))
    ELSE Return([self EXCEPT !.destinations = @ \cup {kwargs["label"]}],
                <<"Destination " \o kwargs["label"] \o " " \o kwargs["type"]
                  \o (IF Flag(kwargs, "new") THEN " new" ELSE "")>>)

\* Schedule without the test "if not label in self.destinations"
Schedule_anyLabel(self, name, kwargs) ==
    IF ~Has(kwargs, "output") THEN Raise(self, KeyError("output"))
    ELSE IF ~Has(kwargs, "label") THEN Raise(self, KeyError("label"))
    ELSE Return([self EXCEPT !.scheduled = TRUE],
                (IF Has(kwargs, "stage") /\ kwargs["stage"] # 0
                 THEN <<"Schedule " \o kwargs["output"] \o " " \o kwargs["label"]
                        \o " Stage " \o ToString(kwargs["stage"])>>
                 ELSE <<>>)
                \o (IF Has(kwargs, "step") /\ kwargs["step"] # 0
                    THEN <<"Schedule " \o kwargs["output"] \o " " \o kwargs["label"]
                           \o " Step " \o ToString(kwargs["step"])>>
                    ELSE <<>>))

\* stage and step are written when given and not 0
Schedule(self, name, kwargs) ==
    IF ~Has(kwargs, "output") THEN Raise(self, KeyError("output"))
    ELSE IF ~Has(kwargs, "label") THEN Raise(self, KeyError("label"))
    ELSE IF kwargs["label"] \notin self.destinations
    THEN Raise(self, UndefTokenMIFException("label", "destination"))
    ELSE Return([self EXCEPT !.scheduled = TRUE],
                (IF Has(kwargs, "stage") /\ kwargs["stage"] # 0
                 THEN <<"Schedule " \o kwargs["output"] \o " " \o kwargs["label"]
                        \o " Stage " \o ToString(kwargs["stage"])>>
                 ELSE <<>>)
                \o (IF Has(kwargs, "step") /\ kwargs["step"] # 0
                    THEN <<"Schedule " \o kwargs["output"] \o " " \o kwargs["label"]
                           \o " Step " \o ToString(kwargs["step"])>>
                    ELSE <<>>))

\* NonBlock(NoPad(fn)): the keywords the two wrappers add to the caller's
NonBlock(kwargs) == ("_noName" :> TRUE) @@ kwargs
NoPad(kwargs) == ("_noPadding" :> TRUE) @@ kwargs

(***************************************************************************)
(* The MIFWrite decorator.                                                 *)
(***************************************************************************)
\* the name search of an unnamed call: fn.__name__, then fn.__name__ + "_" +
\* str(postfix) for postfix = 2, 3, ... while the name is reserved
\* a name search that tries fn and fn_2 only
InferName_once(fn, reserved, postfix) ==
    IF fn \in reserved THEN fn \o "_2" ELSE fn

RECURSIVE InferName(_, _, _)
InferName(fn, reserved, postfix) ==
    LET name == IF postfix = 1 THEN fn ELSE fn \o "_" \o ToString(postfix)
    IN  IF name \in reserved THEN InferName(fn, reserved, postfix + 1) ELSE name

\* the naming step without the test "if name in self.reservedLabels"
Naming_unchecked(fn, self, kwargs) ==
    IF Flag(kwargs, "_noName") THEN [exc |-> NoExc, name |-> None, self |-> self]
    ELSE IF Has(kwargs, "name")
    THEN [exc |-> NoExc, name |-> kwargs["name"],
          self |-> [self EXCEPT !.reservedLabels = @ \cup {kwargs["name"]}]]
    ELSE LET name == InferName(fn, self.reservedLabels, 1)
         IN  [exc |-> NoExc, name |-> name,
              self |-> [self EXCEPT !.reservedLabels = @ \cup {name}]]

\* the naming step without "self.reservedLabels.add(name)" for a name it
\* inferred
Naming_forgets(fn, self, kwargs) ==
    IF Flag(kwargs, "_noName") THEN [exc |-> NoExc, name |-> None, self |-> self]
    ELSE IF Has(kwargs, "name")
    THEN IF kwargs["name"] \in self.reservedLabels
         THEN [exc |-> MIFException("name", "duplicate"), name |-> kwargs["name"],
               self |-> self]
         ELSE [exc |-> NoExc, name |-> kwargs["name"],
               self |-> [self EXCEPT !.reservedLabels = @ \cup {kwargs["name"]}]]
    ELSE [exc |-> NoExc, name |-> InferName(fn, self.reservedLabels, 1), self |-> self]

\* "Step 1: Deal with naming": [exc, name, self]
Naming(fn, self, kwargs) ==
    IF Flag(kwargs, "_noName") THEN [exc |-> NoExc, name |-> None, self |-> self]
    ELSE IF Has(kwargs, "name")
    THEN IF kwargs["name"] \in self.reservedLabels
         THEN [exc |-> MIFException("name", "duplicate"), name |-> kwargs["name"],
               self |-> self]
         ELSE [exc |-> NoExc, name |-> kwargs["name"],
               self |-> [self EXCEPT !.reservedLabels = @ \cup {kwargs["name"]}]]
    ELSE LET name == InferName(fn, self.reservedLabels, 1)
         IN  [exc |-> NoExc, name |-> name,
              self |-> [self EXCEPT !.reservedLabels = @ \cup {name}]]

\* what a call of a wrapped method gives back:
\*   self, file: the MIF object and the file afterwards
\*   body:   the exception the method's own body raised (NoExc when it
\*           returned or did not run)
\*   raised: the exception that reaches the caller (NoExc when the call returns)
\*   value:  the value returned (a name, or None)
\*   lines:  the lines returned to an enclosing method under _noWrite
Result(self, f, body, raised, value, lines) ==
    [self |-> self, file |-> f, body |-> body, raised |-> raised,
     value |-> value, lines |-> lines]

\* the except clauses of the try-block: the exception the caller gets for
\* the exception the body raised
Reraised(e) ==
    CASE e.type = "MIFException" -> e
      [] e.type = "KeyError" -> MIFException(e.parameter, "mandatory")
      [] e.type = "TypeError" -> MIFException("arguments", "bad argument")
      [] e.type = "IndexError" -> MIFException("arguments", "malformed list")
      [] OTHER -> e

\* the exception types the try-block has an except clause for
Caught(e) == e.type \in {"MIFException", "KeyError", "TypeError", "IndexError"}

\* Writing with an "except MIFException" clause that re-raises without
\* purging the file
Writing_reraises(f, name, kwargs, b) ==
    IF b.exc.type = "none"
    THEN Result(b.self,
                [exists |-> TRUE,
                 text |-> f.text \o <<Join(b.ret),
                                      IF Flag(kwargs, "_noPadding")
                                      THEN "\n" ELSE "\n\n\n">>],
                NoExc, NoExc, name, <<>>)
    ELSE IF b.exc.type = "MIFException"
    THEN Result(b.self, f, b.exc, b.exc, None, <<>>)
    ELSE IF Caught(b.exc)
    THEN LET p == purgeFile(b.self, f)
         IN  Result(p.self, p.file, b.exc, Reraised(b.exc), None, <<>>)
    ELSE Result(b.self, f, b.exc, b.exc, None, <<>>)

\* Writing with the file opened in mode 'w': the block replaces what the
\* file held after the header
Writing_rewrites(f, name, kwargs, b) ==
    IF b.exc.type = "none"
    THEN [self |-> b.self,
          file |-> [exists |-> TRUE,
                    text |-> <<"# MIF 2.1\n# Auto-generated by MIFCraft\n\n", Join(b.ret), "\n\n\n">>],
          body |-> b.exc, raised |-> b.exc, value |-> name, lines |-> <<>>]
    ELSE IF b.exc.type \in {"MIFException", "KeyError", "TypeError", "IndexError"}
    THEN [self |-> [b.self EXCEPT !.hasFailed = TRUE],
          file |-> [exists |-> FALSE, text |-> <<>>],
          body |-> b.exc, raised |-> b.exc, value |-> "<None>", lines |-> <<>>]
    ELSE [self |-> b.self, file |-> f, body |-> b.exc, raised |-> b.exc,
          value |-> "<None>", lines |-> <<>>]

\* "Step 2: Deal with writing", the try-block: the body has run and given
\* b = [exc, self, ret]; commit its lines to the file or purge the file
Writing(f, name, kwargs, b) ==
    IF b.exc.type = "none"
    THEN Result(b.self,
                \* open(self.filename, 'a') creates the file when it is absent
                [exists |-> TRUE,
                 text |-> f.text \o <<Join(b.ret),
                                      IF Flag(kwargs, "_noPadding")
                                      THEN "\n" ELSE "\n\n\n">>],
                NoExc, NoExc, name, <<>>)
    ELSE IF Caught(b.exc)
    THEN LET p == purgeFile(b.self, f)
         IN  Result(p.self, p.file, b.exc, Reraised(b.exc), None, <<>>)
    ELSE Result(b.self, f, b.exc, b.exc, None, <<>>)

\* the wrapper without the test "if self.hasFailed: return"
MIFWrite_unguarded(fn, self, f, kwargs, b) ==
    LET n == Naming(fn, self, kwargs)
        kw == Pop(kwargs, "name")
    IN  IF n.exc.type # "none" THEN Result(self, f, NoExc, n.exc, None, <<>>)
        ELSE IF ~Flag(kw, "_noWrite")
        THEN Writing(f, n.name, kw, b)
        ELSE Result(b.self, f, b.exc, b.exc, None, b.ret)

\* the wrapper with a failed flag that skips one call only: the skipped call
\* clears it
MIFWrite_skipsOnce(fn, self, f, kwargs, b) ==
    LET n == Naming(fn, self, kwargs)
        kw == Pop(kwargs, "name")
    IN  IF n.exc.type # "none" THEN Result(self, f, NoExc, n.exc, None, <<>>)
        ELSE IF ~Flag(kw, "_noWrite")
        THEN IF n.self.hasFailed
             THEN Result([n.self EXCEPT !.hasFailed = FALSE], f, NoExc, NoExc, None, <<>>)
             ELSE Writing(f, n.name, kw, b)
        ELSE Result(b.self, f, b.exc, b.exc, None, b.ret)

\* the wrapper of a method func named fn, called on self with kwargs; b is
\* what func(self, name=name, **kwargs) gives on the session the naming step
\* leaves (it is used only where the wrapper calls func)
MIFWrite(fn, self, f, kwargs, b) ==
    LET n == Naming(fn, self, kwargs)
        kw == Pop(kwargs, "name")
    IN  IF n.exc.type # "none" THEN Result(self, f, NoExc, n.exc, None, <<>>)
        ELSE IF ~Flag(kw, "_noWrite")
        THEN IF n.self.hasFailed THEN Result(n.self, f, NoExc, NoExc, None, <<>>)
             ELSE Writing(f, n.name, kw, b)
        ELSE Result(b.self, f, b.exc, b.exc, None, b.ret)

(***************************************************************************)
(* Constructors built on a more general one, which they call through its   *)
(* wrapper with _noWrite and _noName.  Their bodies get the file f only to *)
(* hand it to that wrapper.                                                *)
(***************************************************************************)
\* a wrapper that takes no notice of _noWrite and _noName
Fragment_written(fn, self, f, kwargs, b) ==
    LET name == IF fn \in self.reservedLabels THEN fn \o "_2" ELSE fn
    IN  IF b.exc.type # "none"
        THEN [self |-> b.self, file |-> f, body |-> b.exc, raised |-> b.exc,
              value |-> "<None>", lines |-> <<>>]
        ELSE [self |-> [b.self EXCEPT !.reservedLabels = @ \cup {name}],
              file |-> [exists |-> TRUE, text |-> f.text \o <<Join(b.ret), "\n\n\n">>],
              body |-> b.exc, raised |-> b.exc, value |-> name, lines |-> b.ret]

\* self.fn(_noWrite = True, _noName = True, **kwargs): the wrapper of the more
\* general method; b is what its body gives for the name None
Fragment(fn, self, f, kwargs, b) ==
    MIFWrite(fn, self, f, ("_noWrite" :> TRUE) @@ ("_noName" :> TRUE) @@ kwargs, b)

\* lines[1:-1]
Inner(lines) == SubSeq(lines, 2, Len(lines) - 1)

\* the call RungeKuttaEvolve makes: kwargs without _noName and _noWrite,
\* and name = name
EulerFragment(self, f, name, kwargs) ==
    LET kw == Pop(Pop(kwargs, "_noName"), "_noWrite")
    IN  Fragment("EulerEvolve", self, f, ("name" :> name) @@ kw, EulerEvolve(self, None, kw))

RungeKuttaEvolve(self, f, name, kwargs) ==
    LET e == EulerFragment(self, f, name, kwargs)
    IN  IF e.raised.type # "none" THEN Raise(e.self, e.raised)
        ELSE IF Has(kwargs, "allow_signed_gamma") /\ kwargs["allow_signed_gamma"] \notin {0, 1}
        THEN Raise(e.self, MIFException("allow_signed_gamma", "invalid"))
        ELSE IF Has(kwargs, "method")
                /\ kwargs["method"] \notin {"rk2", "rk4", "rkf54", "rkf54m", "rkf54s"}
        THEN Raise(e.self, MIFException("method", "invalid"))
        ELSE Return(IF Truthy(name)
                    THEN [e.self EXCEPT !.evolvers = Append(@, <<name, "TIME">>)]
                    ELSE e.self,
                    <<"Specify Oxs_RungeKuttaEvolve:" \o name \o " {">> \o Inner(e.lines)
                    \o <<"    allow_signed_gamma", "    method", "}">>)

\* the call SpinXferEvolve makes
RungeKuttaFragment(self, f, kwargs) ==
    LET kw == Pop(Pop(kwargs, "_noName"), "_noWrite")
    IN  Fragment("RungeKuttaEvolve", self, f, kw,
                 RungeKuttaEvolve(self, f, None, ("_noWrite" :> TRUE) @@ ("_noName" :> TRUE) @@ kw))

\* J_profile and its arguments are left out
SpinXferEvolve(self, f, name, kwargs) ==
    LET r == RungeKuttaFragment(self, f, kwargs)
    IN  IF r.raised.type # "none" THEN Raise(r.self, r.raised)
        ELSE IF ~Has(kwargs, "J") THEN Raise(r.self, KeyError("J"))
        ELSE IF ~Has(kwargs, "mp") THEN Raise(r.self, KeyError("mp"))
        ELSE Return(IF Truthy(name)
                    THEN [r.self EXCEPT !.evolvers = Append(@, <<name, "TIME">>)]
                    ELSE r.self,
                    <<"Specify Oxs_SpinXferEvolve:" \o name \o " {">> \o Inner(r.lines)
                    \o <<"    J", "    mp", "}">>)

\* the call PlaneRandomVectorField makes
RandomFragment(self, f, kwargs) ==
    Fragment("RandomVectorField", self, f, kwargs, RandomVectorField(self, None, kwargs))

PlaneRandomVectorField(self, f, name, kwargs) ==
    IF ~Has(kwargs, "plane_normal") THEN Raise(self, KeyError("plane_normal"))
    ELSE LET r == RandomFragment(self, f, kwargs)
         IN  IF r.raised.type # "none" THEN Raise(r.self, r.raised)
             ELSE Return([r.self EXCEPT !.vectorFields = @ \cup {name}],
                         <<"Specify Oxs_PlaneRandomVectorField:" \o name \o " {",
                           "    plane_normal">> \o Inner(r.lines) \o <<"}">>)

(***************************************************************************)
(* The with-protocol: MIF.__exit__ and MIF.validate.                       *)
(***************************************************************************)
\* validate with "and" for the "or" of its last test
validate_bothMissing(self) ==
    IF self.hasFailed THEN {}
    ELSE (IF self.evolvers = <<>> THEN {"No evolver defined."} ELSE {})
         \cup (IF self.drivers = <<>> THEN {"No driver defined."} ELSE {})
         \cup {"unused: " \o label :
                 label \in (self.atlases \cup self.vectorFields \cup self.scalarFields
                            \cup EvolverNames(self)) \ self.labelsUsed}
         \cup (IF self.destinations = {} /\ ~self.scheduled
               THEN {"Simulation has not configured any output"} ELSE {})

\* the warnings validate prints; nothing when the session has failed
validate(self) ==
    IF self.hasFailed THEN {}
    ELSE (IF self.evolvers = <<>> THEN {"No evolver defined."} ELSE {})
         \cup (IF self.drivers = <<>> THEN {"No driver defined."} ELSE {})
         \cup {"unused: " \o label :
                 label \in (self.atlases \cup self.vectorFields \cup self.scalarFields
                            \cup EvolverNames(self)) \ self.labelsUsed}
         \cup (IF self.destinations = {} \/ ~self.scheduled
               THEN {"Simulation has not configured any output"} ELSE {})

\* __exit__(self, type, value, traceback) for an exception of the given type
\* ("none": the with-block ended normally)
MIF__exit__(self, type) ==
    IF type = "MIFException" \/ type = "NameError"
    THEN [type |-> type, suppressed |-> TRUE, validated |-> FALSE, warnings |-> {}]
    ELSE [type |-> type, suppressed |-> FALSE, validated |-> ~self.hasFailed,
          warnings |-> validate(self)]

NotExited == [type |-> "none", suppressed |-> FALSE, validated |-> FALSE, warnings |-> {}]

(***************************************************************************)
(* The calls a script makes: the arguments tried for each method.  Names   *)
(* that refer to other blocks are the names those blocks get when they are *)
(* left unnamed ("BoxAtlas", "UniformScalarField", ...), or the name "a".  *)
(***************************************************************************)
NoArgs == [k \in {} |-> TRUE]

\* the calls with these arguments unnamed, and the call with the arguments
\* base under each of the names passed as name=...
Named(base, others, names) ==
    {base} \cup others \cup {("name" :> n) @@ base : n \in names}

Box == [xrange |-> <<0, 100 * NM>>, yrange |-> <<0, 100 * NM>>, zrange |-> <<0, 12 * NM>>]

BoxAtlasArgs ==
    Named(Box, { [Box EXCEPT !.xrange = <<100 * NM, 0>>],
                 [Box EXCEPT !.yrange = <<0>>],
                 [xrange |-> <<0, 100 * NM>>, yrange |-> <<0, 100 * NM>>] },
          {"a", "BoxAtlas"})

Image == [viewplane |-> "xy", image |-> "img.png", colormap |-> << <<"white", "r1">> >>] @@ Box

ImageAtlasArgs ==
    Named(Image, { [Image EXCEPT !.colormap = <<>>] }, {"a"})

Mesh4 == [cellsize |-> <<4 * NM, 4 * NM, 4 * NM>>, atlas |-> "BoxAtlas"]

RectangularMeshArgs ==
    Named(Mesh4, { [Mesh4 EXCEPT !.cellsize = <<3 * NM, 4 * NM, 4 * NM>>],
                   [Mesh4 EXCEPT !.cellsize = <<4 * NM, 3 * NM, 5 * NM>>],
                   [Mesh4 EXCEPT !.cellsize = <<4 * NM, 4 * NM, 5 * NM>>],
                   [Mesh4 EXCEPT !.atlas = "a"],
                   [Mesh4 EXCEPT !.atlas = "ImageAtlas"],
                   [Mesh4 EXCEPT !.atlas = "UniformScalarField"] },
          {"a"})

StageZeemanArgs ==
    Named([files |-> <<"stage.omf">>],
          { [script |-> "Proc"], [script |-> "Proc", files |-> <<"stage.omf">>], NoArgs },
          {"a"})

UniformScalarFieldArgs == Named([value |-> 800], { NoArgs }, {"a"})

Random11 == [min_norm |-> 1, max_norm |-> 1]

RandomVectorFieldArgs ==
    Named(Random11, { [min_norm |-> 2, max_norm |-> 1] }, {"a"})

Mask == [mask |-> "UniformScalarField", field |-> "RandomVectorField"]

MaskVectorFieldArgs ==
    Named(Mask, { [Mask EXCEPT !.mask = "RandomVectorField"],
                  [Mask EXCEPT !.field = "UniformScalarField"] },
          {"a"})

ReturnLine == [text |-> "return $x", has |-> {"return", "x"}]
SetLine == [text |-> "set y $x", has |-> {"x"}]

ProcArgs ==
    Named([args |-> <<"x">>, lines |-> <<ReturnLine>>],
          { [args |-> <<"x">>, lines |-> <<SetLine>>] }, {"a"})

Script == ("script" :> "Proc") @@ Box

ScriptVectorFieldArgs ==
    Named(Script,
          { [Script EXCEPT !.script = "a"],
            [script_args |-> <<"relpt", "vector_fields">>,
             vector_fields |-> <<"RandomVectorField">>] @@ Script,
            [script_args |-> <<"relpt", "vector_fields">>,
             vector_fields |-> <<"UniformScalarField">>] @@ Script,
            [script_args |-> <<"scalar_fields">>,
             scalar_fields |-> <<"UniformScalarField">>] @@ Script },
          {"a"})

EulerEvolveArgs ==
    Named(NoArgs,
          { [do_precess |-> 2], [gamma_G |-> 1],
            [fixed_spins |-> <<"BoxAtlas", <<"r1">> >>],
            [fixed_spins |-> <<"nowhere", <<>> >>] },
          {"a"})

Driver == [Ms |-> "UniformScalarField", m0 |-> "RandomVectorField"]

TimeDriverArgs ==
    Named(Driver,
          { [evolver |-> "EulerEvolve", mesh |-> "RectangularMesh"] @@ Driver,
            [Driver EXCEPT !.Ms = "BoxAtlas"],
            [Driver EXCEPT !.Ms = "RandomVectorField"],
            [stage_count_check |-> 1, stage_count |-> 1] @@ Driver },
          {"a"})

MinDriverArgs ==
    Named(("mesh" :> "RectangularMesh") @@ Driver,
          { Driver,
            [evolver |-> "EulerEvolve", mesh |-> "RectangularMesh"] @@ Driver,
            [mesh |-> "RectangularMesh", stage_count |-> 1] @@ Driver,
            [Ms |-> "RandomVectorField", m0 |-> "RandomVectorField",
             mesh |-> "RectangularMesh"] },
          {"a"})

(***************************************************************************)
(* The state machine.                                                      *)
(***************************************************************************)
Init ==
    /\ mif = MIF__init__
    /\ file = NewFile
    /\ pc = "with"
    /\ exit = NotExited
    /\ last = [fn |-> "__init__", kwargs |-> NoArgs, name |-> None, dup |-> FALSE, preFailed |-> FALSE,
               body |-> NoExc, raised |-> NoExc, value |-> None]
    /\ returned = {}
    /\ ncalls = 0
    /\ other = None

\* the session and the name a method's body gets from the wrapper
Named_self(fn, kwargs) == Naming(fn, mif, kwargs).self
Named_name(fn, kwargs) == Naming(fn, mif, kwargs).name

\* one call M.fn(**kwargs), inside the with-block or after it; b is what the
\* method's body gives
Call(fn, kwargs, b) ==
    /\ LET r == MIFWrite(fn, mif, file, kwargs, b)
       IN  /\ mif' = r.self
           /\ file' = r.file
           /\ last' = [fn |-> fn, kwargs |-> kwargs, name |-> Named_name(fn, kwargs),
                       dup |-> Has(kwargs, "name") /\ kwargs["name"] \in mif.reservedLabels,
                       preFailed |-> mif.hasFailed,
                       body |-> r.body, raised |-> r.raised, value |-> r.value]
           /\ returned' = IF r.raised.type = "none" /\ r.value # None
                          THEN returned \cup {r.value} ELSE returned
    /\ ncalls' = ncalls + 1
    /\ UNCHANGED <<pc, exit, other>>

CallBoxAtlas ==
    \E kwargs \in BoxAtlasArgs :
        /\ ncalls < MaxCalls
        /\ Call("BoxAtlas", kwargs,
                BoxAtlas(Named_self("BoxAtlas", kwargs), Named_name("BoxAtlas", kwargs), Pop(kwargs, "name")))

CallImageAtlas ==
    \E kwargs \in ImageAtlasArgs :
        /\ ncalls < MaxCalls
        /\ Call("ImageAtlas", kwargs,
                ImageAtlas(Named_self("ImageAtlas", kwargs), Named_name("ImageAtlas", kwargs), Pop(kwargs, "name")))

CallRectangularMesh ==
    \E kwargs \in RectangularMeshArgs :
        /\ ncalls < MaxCalls
        /\ Call("RectangularMesh", kwargs,
                RectangularMesh(Named_self("RectangularMesh", kwargs), Named_name("RectangularMesh", kwargs), Pop(kwargs, "name")))

CallStageZeeman ==
    \E kwargs \in StageZeemanArgs :
        /\ ncalls < MaxCalls
        /\ Call("StageZeeman", kwargs,
                StageZeeman(Named_self("StageZeeman", kwargs), Named_name("StageZeeman", kwargs), Pop(kwargs, "name")))

CallUniformScalarField ==
    \E kwargs \in UniformScalarFieldArgs :
        /\ ncalls < MaxCalls
        /\ Call("UniformScalarField", kwargs,
                UniformScalarField(Named_self("UniformScalarField", kwargs), Named_name("UniformScalarField", kwargs), Pop(kwargs, "name")))

CallRandomVectorField ==
    \E kwargs \in RandomVectorFieldArgs :
        /\ ncalls < MaxCalls
        /\ Call("RandomVectorField", kwargs,
                RandomVectorField(Named_self("RandomVectorField", kwargs), Named_name("RandomVectorField", kwargs), Pop(kwargs, "name")))

CallMaskVectorField ==
    \E kwargs \in MaskVectorFieldArgs :
        /\ ncalls < MaxCalls
        /\ Call("MaskVectorField", kwargs,
                MaskVectorField(Named_self("MaskVectorField", kwargs), Named_name("MaskVectorField", kwargs), Pop(kwargs, "name")))

CallProc ==
    \E kwargs \in ProcArgs :
        /\ ncalls < MaxCalls
        /\ Call("Proc", kwargs,
                Proc(Named_self("Proc", kwargs), Named_name("Proc", kwargs), Pop(kwargs, "name")))

CallScriptVectorField ==
    \E kwargs \in ScriptVectorFieldArgs :
        /\ ncalls < MaxCalls
        /\ Call("ScriptVectorField", kwargs,
                ScriptVectorField(Named_self("ScriptVectorField", kwargs), Named_name("ScriptVectorField", kwargs), Pop(kwargs, "name")))

CallEulerEvolve ==
    \E kwargs \in EulerEvolveArgs :
        /\ ncalls < MaxCalls
        /\ Call("EulerEvolve", kwargs,
                EulerEvolve(Named_self("EulerEvolve", kwargs), Named_name("EulerEvolve", kwargs), Pop(kwargs, "name")))

CallTimeDriver ==
    \E kwargs \in TimeDriverArgs :
        /\ ncalls < MaxCalls
        /\ Call("TimeDriver", kwargs,
                TimeDriver(Named_self("TimeDriver", kwargs), Named_name("TimeDriver", kwargs), Pop(kwargs, "name")))

CallMinDriver ==
    \E kwargs \in MinDriverArgs :
        /\ ncalls < MaxCalls
        /\ Call("MinDriver", kwargs,
                MinDriver(Named_self("MinDriver", kwargs), Named_name("MinDriver", kwargs), Pop(kwargs, "name")))


\* the with-block ends: type is the exception leaving it, "none" without one
Exit(type) ==
    /\ exit' = MIF__exit__(mif, type)
    /\ pc' = "exited"
    /\ UNCHANGED <<mif, file, last, returned, ncalls, other>>

\* the block runs to its end (an exception of a call, if any, was handled
\* inside the block)
ExitClean == pc = "with" /\ Exit("none")

\* the exception of the latest call leaves the with-block
ExitRaised == pc = "with" /\ last.raised.type # "none" /\ Exit(last.raised.type)

\* the script itself raises between two calls: a typo (NameError) or
\* anything else
ExitScriptError == \E type \in {"NameError", "RuntimeError"} : pc = "with" /\ Exit(type)

Next ==
    \/ CallBoxAtlas
    \/ CallImageAtlas
    \/ CallRectangularMesh
    \/ CallStageZeeman
    \/ CallUniformScalarField
    \/ CallRandomVectorField
    \/ CallMaskVectorField
    \/ CallProc
    \/ CallScriptVectorField
    \/ CallEulerEvolve
    \/ CallTimeDriver
    \/ CallMinDriver
    \/ ExitClean
    \/ ExitRaised
    \/ ExitScriptError

Spec == Init /\ [][Next]_vars

(***************************************************************************)
(* A script past its declarations.  The second specification starts where  *)
(* a script has declared one region, one mesh, one scalar field and one    *)
(* vector field, as the four calls below leave the session, and goes on    *)
(* with evolvers, drivers, an energy, masks and the output commands.       *)
(***************************************************************************)
MaxScriptCalls == 8

\* the session, the file and the bookkeeping after the call M.fn(**kwargs)
\* made in s; b is what the method's body gives
After(s, fn, kwargs, b) ==
    LET r == MIFWrite(fn, s.mif, s.file, kwargs, b)
    IN  [mif |-> r.self, file |-> r.file,
         last |-> [fn |-> fn, kwargs |-> kwargs, name |-> Naming(fn, s.mif, kwargs).name,
                   dup |-> Has(kwargs, "name") /\ kwargs["name"] \in s.mif.reservedLabels,
                   preFailed |-> s.mif.hasFailed,
                   body |-> r.body, raised |-> r.raised, value |-> r.value],
         returned |-> IF r.raised.type = "none" /\ r.value # None
                      THEN s.returned \cup {r.value} ELSE s.returned,
         ncalls |-> s.ncalls + 1]

Constructed ==
    [mif |-> MIF__init__, file |-> NewFile,
     last |-> [fn |-> "__init__", kwargs |-> NoArgs, name |-> None, dup |-> FALSE,
               preFailed |-> FALSE, body |-> NoExc, raised |-> NoExc, value |-> None],
     returned |-> {}, ncalls |-> 0]

\* the session after
\*   M.BoxAtlas(xrange=..., yrange=..., zrange=...)
\*   M.RectangularMesh(cellsize=..., atlas="BoxAtlas")
\*   M.UniformScalarField(value=...)
\*   M.RandomVectorField(min_norm=1, max_norm=1)
Declared ==
    LET d1 == After(Constructed, "BoxAtlas", Box,
                    BoxAtlas(Naming("BoxAtlas", Constructed.mif, Box).self, "BoxAtlas", Box))
        d2 == After(d1, "RectangularMesh", Mesh4,
                    RectangularMesh(Naming("RectangularMesh", d1.mif, Mesh4).self,
                                    "RectangularMesh", Mesh4))
        d3 == After(d2, "UniformScalarField", [value |-> 800],
                    UniformScalarField(Naming("UniformScalarField", d2.mif, [value |-> 800]).self,
                                       "UniformScalarField", [value |-> 800]))
    IN  After(d3, "RandomVectorField", Random11,
              RandomVectorField(Naming("RandomVectorField", d3.mif, Random11).self,
                                "RandomVectorField", Random11))

InitScript ==
    /\ mif = Declared.mif
    /\ file = Declared.file
    /\ pc = "with"
    /\ exit = NotExited
    /\ last = Declared.last
    /\ returned = Declared.returned
    /\ ncalls = Declared.ncalls
    /\ other = None

ScriptEulerEvolveArgs == { NoArgs, [name |-> "E"], [do_precess |-> 2] }

CGEvolveArgs == { NoArgs, [method |-> "Newton"] }

ScriptTimeDriverArgs ==
    { Driver,
      [evolver |-> "EulerEvolve"] @@ Driver,
      [evolver |-> "CGEvolve"] @@ Driver,
      [Ms |-> "UniformScalarField"] }

ScriptMinDriverArgs ==
    { Driver,
      ("mesh" :> "RectangularMesh") @@ Driver,
      [evolver |-> "EulerEvolve", mesh |-> "RectangularMesh"] @@ Driver,
      [mesh |-> "RectangularMesh", m0 |-> "RandomVectorField"] }

ScriptMaskVectorFieldArgs == { Mask, [Mask EXCEPT !.field = "MaskVectorField"], [field |-> "RandomVectorField"] }

UniformExchangeArgs == { [A |-> 13], NoArgs }

Archive == [label |-> "archive", type |-> "mmArchive"]

DestinationArgs == { Archive, [Archive EXCEPT !.type = "mmPlot"], [type |-> "mmArchive"] }

EachStage == [output |-> "DataTable", label |-> "archive", stage |-> 1]

ScheduleArgs ==
    { EachStage,
      [output |-> "DataTable", label |-> "archive"],
      [EachStage EXCEPT !.label = "graph"],
      [label |-> "archive", step |-> 1] }

ScriptEulerEvolve ==
    \E kwargs \in ScriptEulerEvolveArgs :
        /\ ncalls < MaxScriptCalls
        /\ Call("EulerEvolve", kwargs,
                EulerEvolve(Named_self("EulerEvolve", kwargs), Named_name("EulerEvolve", kwargs), Pop(kwargs, "name")))

ScriptCGEvolve ==
    \E kwargs \in CGEvolveArgs :
        /\ ncalls < MaxScriptCalls
        /\ Call("CGEvolve", kwargs,
                CGEvolve(Named_self("CGEvolve", kwargs), Named_name("CGEvolve", kwargs), Pop(kwargs, "name")))

ScriptTimeDriver ==
    \E kwargs \in ScriptTimeDriverArgs :
        /\ ncalls < MaxScriptCalls
        /\ Call("TimeDriver", kwargs,
                TimeDriver(Named_self("TimeDriver", kwargs), Named_name("TimeDriver", kwargs), Pop(kwargs, "name")))

ScriptMinDriver ==
    \E kwargs \in ScriptMinDriverArgs :
        /\ ncalls < MaxScriptCalls
        /\ Call("MinDriver", kwargs,
                MinDriver(Named_self("MinDriver", kwargs), Named_name("MinDriver", kwargs), Pop(kwargs, "name")))

ScriptMaskVectorField ==
    \E kwargs \in ScriptMaskVectorFieldArgs :
        /\ ncalls < MaxScriptCalls
        /\ Call("MaskVectorField", kwargs,
                MaskVectorField(Named_self("MaskVectorField", kwargs), Named_name("MaskVectorField", kwargs), Pop(kwargs, "name")))

ScriptUniformExchange ==
    \E kwargs \in UniformExchangeArgs :
        /\ ncalls < MaxScriptCalls
        /\ Call("UniformExchange", kwargs,
                UniformExchange(Named_self("UniformExchange", kwargs), Named_name("UniformExchange", kwargs), Pop(kwargs, "name")))

\* Destination and Schedule are wrapped by NonBlock and NoPad: the wrapper
\* gets the caller's keywords and the two flags
ScriptDestination ==
    \E kwargs \in DestinationArgs :
        /\ ncalls < MaxScriptCalls
        /\ Call("Destination", NonBlock(NoPad(kwargs)),
                Destination(mif, None, NonBlock(NoPad(kwargs))))

ScriptSchedule ==
    \E kwargs \in ScheduleArgs :
        /\ ncalls < MaxScriptCalls
        /\ Call("Schedule", NonBlock(NoPad(kwargs)),
                Schedule(mif, None, NonBlock(NoPad(kwargs))))

NextScript ==
    \/ ScriptEulerEvolve
    \/ ScriptCGEvolve
    \/ ScriptTimeDriver
    \/ ScriptMinDriver
    \/ ScriptMaskVectorField
    \/ ScriptUniformExchange
    \/ ScriptDestination
    \/ ScriptSchedule
    \/ ExitClean
    \/ ExitRaised
    \/ ExitScriptError

SpecScript == InitScript /\ [][NextScript]_vars

(***************************************************************************)
(* Two sessions.  The third specification has a second MIF object on a     *)
(* file of its own; the calls on the two objects interleave freely.        *)
(***************************************************************************)
MaxOtherCalls == 2

\* the second object with reservedLabels an attribute of the class
OtherSelf_sharedLabels ==
    [other.mif EXCEPT !.reservedLabels = @ \cup mif.reservedLabels]

\* the self a method called on the second object gets
OtherSelf == other.mif

InitSessions ==
    /\ mif = MIF__init__
    /\ file = NewFile
    /\ pc = "with"
    /\ exit = NotExited
    /\ last = Constructed.last
    /\ returned = {}
    /\ ncalls = 0
    /\ other = Constructed

\* one call on the second object: its attributes and its file are what the
\* wrapper works on
OtherCall(fn, kwargs, b) ==
    /\ other' = After([other EXCEPT !.mif = OtherSelf], fn, kwargs, b)
    /\ UNCHANGED <<mif, file, pc, exit, last, returned, ncalls>>

OtherBoxAtlas ==
    \E kwargs \in {Box, ("name" :> "a") @@ Box, [Box EXCEPT !.xrange = <<100 * NM, 0>>]} :
        /\ other.ncalls < MaxOtherCalls
        /\ OtherCall("BoxAtlas", kwargs,
                     BoxAtlas(Naming("BoxAtlas", OtherSelf, kwargs).self,
                              Naming("BoxAtlas", OtherSelf, kwargs).name, Pop(kwargs, "name")))

OtherRectangularMesh ==
    \E kwargs \in {Mesh4, [Mesh4 EXCEPT !.cellsize = <<3 * NM, 4 * NM, 4 * NM>>]} :
        /\ other.ncalls < MaxOtherCalls
        /\ OtherCall("RectangularMesh", kwargs,
                     RectangularMesh(Naming("RectangularMesh", OtherSelf, kwargs).self,
                                     Naming("RectangularMesh", OtherSelf, kwargs).name,
                                     Pop(kwargs, "name")))

NextSessions ==
    \/ CallBoxAtlas
    \/ CallRectangularMesh
    \/ ExitClean
    \/ OtherBoxAtlas
    \/ OtherRectangularMesh

SpecSessions == InitSessions /\ [][NextSessions]_vars

(***************************************************************************)
(* Regions.  The fourth specification declares box atlases of every        *)
(* ordering of their bounds, multi-atlases over them and meshes on them.   *)
(***************************************************************************)
MaxRegionCalls == 3

\* (min, max) of one axis: ordered, inverted, and of length zero
Ranges == { <<0, 8 * NM>>, <<8 * NM, 0>>, <<4 * NM, 4 * NM>> }

RegionsBoxAtlas ==
    \E rx \in Ranges, ry \in Ranges, rz \in Ranges :
        LET kwargs == [xrange |-> rx, yrange |-> ry, zrange |-> rz]
        IN  /\ ncalls < MaxRegionCalls
            /\ Call("BoxAtlas", kwargs,
                    BoxAtlas(Named_self("BoxAtlas", kwargs), Named_name("BoxAtlas", kwargs), Pop(kwargs, "name")))

RegionsEllipsoidAtlas ==
    \E kwargs \in { Box, [Box EXCEPT !.zrange = <<100 * NM, 0>>] } :
        /\ ncalls < MaxRegionCalls
        /\ Call("EllipsoidAtlas", kwargs,
                EllipsoidAtlas(Named_self("EllipsoidAtlas", kwargs), Named_name("EllipsoidAtlas", kwargs), Pop(kwargs, "name")))

MultiAtlasArgs ==
    { NoArgs } \cup
    { [atlases |-> a] @@ r :
        a \in { <<"BoxAtlas">>, <<"BoxAtlas", "BoxAtlas_2">>, <<"BoxAtlas", "nowhere">>,
                <<"MultiAtlas">>, <<"EllipsoidAtlas">>, <<>> },
        r \in { NoArgs, [xrange |-> <<0, 8 * NM>>, zrange |-> <<8 * NM, 0>>],
                [yrange |-> <<4 * NM, 4 * NM>>] } }

RegionsMultiAtlas ==
    \E kwargs \in MultiAtlasArgs :
        /\ ncalls < MaxRegionCalls
        /\ Call("MultiAtlas", kwargs,
                MultiAtlas(Named_self("MultiAtlas", kwargs), Named_name("MultiAtlas", kwargs), Pop(kwargs, "name")))

RegionsRectangularMesh ==
    \E atlas \in {"BoxAtlas", "MultiAtlas", "EllipsoidAtlas"},
       cellsize \in { <<4 * NM, 4 * NM, 4 * NM>>, <<3 * NM, 4 * NM, 4 * NM>> } :
        LET kwargs == [cellsize |-> cellsize, atlas |-> atlas]
        IN  /\ ncalls < MaxRegionCalls
            /\ Call("RectangularMesh", kwargs,
                    RectangularMesh(Named_self("RectangularMesh", kwargs), Named_name("RectangularMesh", kwargs), Pop(kwargs, "name")))

NextRegions ==
    \/ RegionsBoxAtlas
    \/ RegionsEllipsoidAtlas
    \/ RegionsMultiAtlas
    \/ RegionsRectangularMesh

SpecRegions == Init /\ [][NextRegions]_vars

(***************************************************************************)
(* Composed constructors.  The fifth specification calls the evolvers and  *)
(* the vector field that are built on a more general constructor, next to  *)
(* that constructor itself.                                                *)
(***************************************************************************)
MaxFragmentCalls == 3

FragmentsEulerEvolve ==
    \E kwargs \in { NoArgs, [name |-> "rk"] } :
        /\ ncalls < MaxFragmentCalls
        /\ Call("EulerEvolve", kwargs,
                EulerEvolve(Named_self("EulerEvolve", kwargs), Named_name("EulerEvolve", kwargs), Pop(kwargs, "name")))

FragmentsRungeKuttaEvolve ==
    \E kwargs \in { NoArgs, [name |-> "rk"], [method |-> "rk4"], [method |-> "euler"],
                     [do_precess |-> 2], [fixed_spins |-> <<"nowhere", <<>> >>] } :
        /\ ncalls < MaxFragmentCalls
        /\ Call("RungeKuttaEvolve", kwargs,
                RungeKuttaEvolve(Named_self("RungeKuttaEvolve", kwargs), file,
                                 Named_name("RungeKuttaEvolve", kwargs), Pop(kwargs, "name")))

FragmentsSpinXferEvolve ==
    \E kwargs \in { [J |-> 1, mp |-> <<1, 0, 0>>], [name |-> "rk", J |-> 1, mp |-> <<1, 0, 0>>],
                     [J |-> 1], [J |-> 1, mp |-> <<1, 0, 0>>, gamma_G |-> 1] } :
        /\ ncalls < MaxFragmentCalls
        /\ Call("SpinXferEvolve", kwargs,
                SpinXferEvolve(Named_self("SpinXferEvolve", kwargs), file,
                               Named_name("SpinXferEvolve", kwargs), Pop(kwargs, "name")))

FragmentsPlaneRandomVectorField ==
    \E kwargs \in { [plane_normal |-> <<0, 0, 1>>] @@ Random11,
                     [name |-> "m0", plane_normal |-> <<0, 0, 1>>] @@ Random11,
                     Random11,
                     [plane_normal |-> <<0, 0, 1>>, min_norm |-> 2, max_norm |-> 1] } :
        /\ ncalls < MaxFragmentCalls
        /\ Call("PlaneRandomVectorField", kwargs,
                PlaneRandomVectorField(Named_self("PlaneRandomVectorField", kwargs), file,
                                       Named_name("PlaneRandomVectorField", kwargs),
                                       Pop(kwargs, "name")))

NextFragments ==
    \/ FragmentsEulerEvolve
    \/ FragmentsRungeKuttaEvolve
    \/ FragmentsSpinXferEvolve
    \/ FragmentsPlaneRandomVectorField
    \/ ExitClean

SpecFragments == Init /\ [][NextFragments]_vars

(***************************************************************************)
(* Stage counts.  The sixth specification starts where the script starts   *)
(* and declares applied fields with stages, an evolver, and drivers that   *)
(* ask for their stage count to be checked.                                *)
(***************************************************************************)
MaxStageCalls == 7

StagesUZeeman ==
    \E kwargs \in { [Hrange |-> << <<0, 0, 0, 1, 0, 0, 3>> >>],
                     [Hrange |-> << <<0, 0, 0, 1, 0, 0, 1>>, <<1, 0, 0, 0, 0, 0, 1>> >>],
                     [Hrange |-> <<>>], NoArgs } :
        /\ ncalls < MaxStageCalls
        /\ Call("UZeeman", kwargs,
                UZeeman(Named_self("UZeeman", kwargs), Named_name("UZeeman", kwargs), Pop(kwargs, "name")))

StagesTimeDriver ==
    \E kwargs \in { Driver, [stage_count |-> 2] @@ Driver, [stage_count_check |-> 1] @@ Driver }
                   \cup { [stage_count_check |-> 1, stage_count |-> n] @@ Driver : n \in 0..4 } :
        /\ ncalls < MaxStageCalls
        /\ Call("TimeDriver", kwargs,
                TimeDriver(Named_self("TimeDriver", kwargs), Named_name("TimeDriver", kwargs), Pop(kwargs, "name")))

NextStages ==
    \/ StagesUZeeman
    \/ ScriptEulerEvolve
    \/ StagesTimeDriver
    \/ ExitClean

SpecStages == InitScript /\ [][NextStages]_vars

(***************************************************************************)
(* Properties.  last describes the latest call: last.preFailed is hasFailed *)
(* before it, last.dup tells that it passed a name that was reserved,       *)
(* last.body is the exception its body raised, last.raised the exception    *)
(* the caller got.                                                          *)
(***************************************************************************)
TypeOK ==
    /\ mif.hasFailed \in BOOLEAN
    /\ file.exists \in BOOLEAN
    /\ pc \in {"with", "exited"}
    /\ ncalls \in 0..MaxCalls
    /\ returned \subseteq mif.reservedLabels
    \* purgeFile finds the file it removes
    /\ ~mif.hasFailed => file.exists

DriverNames(self) == {self.drivers[i] : i \in DOMAIN self.drivers}

\* the per-kind registries of named blocks
Registries(self) ==
    <<self.atlases, self.scalarFields, self.vectorFields, EvolverNames(self),
      MeshNames(self), DriverNames(self), self.scripts>>

NoRepeats(s) == \A i, j \in DOMAIN s : i # j => s[i] # s[j]

Duplicate == MIFException("name", "duplicate")

\* C1: when the body of a call on a session that has not failed raises a
\* MIFException, then after the call the file does not exist, hasFailed is
\* true and the caller gets that MIFException.
C1_ValidationFailureRollsBack ==
    (last.body.type = "MIFException" /\ ~last.preFailed)
        => (~file.exists /\ mif.hasFailed /\ last.raised = last.body)

C1_Witness ==
    /\ ~last.preFailed
    /\ last.body.type = "MIFException"
    /\ last.body.kind = "undefined atlas"
    /\ ncalls > 1
    /\ ~file.exists

\* C2 as stated: whenever the body of a call raises, whatever the type of
\* the exception, the file does not exist after the call and hasFailed is true.
C2_AnyBodyErrorRollsBack ==
    last.body.type # "none" => (~file.exists /\ mif.hasFailed)

\* C3: in every state where the session has failed the file is absent: no
\* call after the failure writes to the file or creates it again.
C3_FailedFileAbsent == mif.hasFailed => ~file.exists

C3_Witness ==
    /\ last.preFailed
    /\ last.fn = "BoxAtlas"
    /\ last.kwargs = Box
    /\ last.raised.type = "none"
    /\ ~file.exists

\* C4 as stated: a call made on a session that has failed returns without
\* raising.
C4_FailedCallsNeverRaise == last.preFailed => last.raised.type = "none"

\* C5: hasFailed, once true, stays true in every step: a call, the end of the
\* with-block and the validation it runs do not reset it.
C5_FailedSticky == [][mif.hasFailed => mif'.hasFailed]_vars

C5_Witness ==
    /\ last.preFailed
    /\ mif.hasFailed
    /\ pc = "exited"
    /\ exit.type = "none"

\* C6: a call that passes a name already reserved gets the duplicate-name
\* error, and no per-kind registry changes in that call.
C6_DuplicateNameRejected ==
    [][(ncalls' # ncalls /\ last'.dup)
           => (last'.raised = Duplicate /\ Registries(mif') = Registries(mif))]_vars

C6_Witness ==
    /\ last.dup
    /\ last.raised = Duplicate
    /\ last.fn = "UniformScalarField"
    /\ last.kwargs["name"] \in mif.atlases

\* C7 as stated: when a call is rejected because its name is already
\* reserved, the file is deleted and hasFailed is set.
C7_DuplicateNameRollsBack == last.dup => (~file.exists /\ mif.hasFailed)

\* C8: the per-kind registries are pairwise disjoint, the ordered ones
\* (evolvers, meshes, drivers) hold no name twice, and every registered name
\* is reserved.
C8_RegistriesDisjoint ==
    /\ \A i, j \in 1..7 : i # j => Registries(mif)[i] \cap Registries(mif)[j] = {}
    /\ NoRepeats([i \in DOMAIN mif.evolvers |-> mif.evolvers[i][1]])
    /\ NoRepeats(mif.meshes)
    /\ NoRepeats(mif.drivers)
    /\ \A i \in 1..7 : Registries(mif)[i] \subseteq mif.reservedLabels

C8_Witness ==
    /\ Cardinality({i \in 1..7 : Registries(mif)[i] # {}}) = 3
    /\ ~mif.hasFailed

\* C9 as stated: a RectangularMesh call on a session that has not failed
\* returns a name only if its atlas is a region whose constructor returned
\* before; and when its atlas is no registered region the caller gets the
\* undefined-atlas error, the mesh is not registered and the file is gone.
C9_MeshNeedsDeclaredRegion ==
    (last.fn = "RectangularMesh" /\ ~last.preFailed /\ ~last.dup)
        => /\ last.raised.type = "none"
                => last.kwargs["atlas"] \in mif.atlases \cap (returned \ {last.value})
           /\ last.kwargs["atlas"] \notin mif.atlases
                => /\ last.raised = UndefTokenMIFException("atlas", "atlas")
                   /\ last.name \notin MeshNames(mif)
                   /\ ~file.exists

\* the names a call passes where a scalar field is required
ScalarFieldArgs(fn, kwargs) ==
    CASE fn = "MaskVectorField" -> {kwargs["mask"]}
      [] fn \in {"TimeDriver", "MinDriver"} -> {kwargs["Ms"]}
      [] fn = "ScriptVectorField" /\ Has(kwargs, "scalar_fields") ->
             {kwargs["scalar_fields"][i] : i \in DOMAIN kwargs["scalar_fields"]}
      [] OTHER -> {}

\* the names a call passes where a vector field is required
VectorFieldArgs(fn, kwargs) ==
    CASE fn = "MaskVectorField" -> {kwargs["field"]}
      [] fn \in {"TimeDriver", "MinDriver"} -> {kwargs["m0"]}
      [] fn = "ScriptVectorField" /\ Has(kwargs, "vector_fields") ->
             {kwargs["vector_fields"][i] : i \in DOMAIN kwargs["vector_fields"]}
      [] OTHER -> {}

\* C10 as stated: a call on a session that has not failed returns a name
\* only if every argument that requires a scalar field names a registered
\* scalar field and every argument that requires a vector field names a
\* registered vector field.
C10_FieldArgsOfTheirKind ==
    (~last.preFailed /\ last.raised.type = "none")
        => /\ ScalarFieldArgs(last.fn, last.kwargs) \subseteq mif.scalarFields
           /\ VectorFieldArgs(last.fn, last.kwargs) \subseteq mif.vectorFields \ {last.name}

\* the mode of evolver a driver requires
RequiredMode(fn) == IF fn = "TimeDriver" THEN "TIME" ELSE "MINIMIZING"

\* the evolver a driver's block names: "evolver[0]"
BoundEvolver(fn, self, kwargs) ==
    IF fn = "TimeDriver" THEN TimeDriverEvolver0(self, kwargs) ELSE self.evolvers[1][1]

\* C11 as stated: every call that registers a driver names in the driver's
\* block an evolver that is declared with the mode the driver requires:
\* TIME for a TimeDriver, MINIMIZING for a MinDriver, whether the evolver
\* was given or chosen by default.
C11_DriverBoundToCompatibleEvolver ==
    [][Len(mif'.drivers) > Len(mif.drivers)
          => \E i \in DOMAIN mif.evolvers :
                 mif.evolvers[i] = <<BoundEvolver(last'.fn, mif, last'.kwargs),
                                     RequiredMode(last'.fn)>>]_vars

\* the name of the first declared evolver of the mode, None when there is none
FirstOfMode(self, mode) ==
    IF \E i \in DOMAIN self.evolvers : self.evolvers[i][2] = mode
    THEN self.evolvers[CHOOSE i \in DOMAIN self.evolvers :
                           /\ self.evolvers[i][2] = mode
                           /\ \A j \in 1..(i - 1) : self.evolvers[j][2] # mode][1]
    ELSE None

\* C12 as stated: a TimeDriver or MinDriver call on a session that has not
\* failed which omits evolver fails citing the evolver, and the file is gone,
\* when no evolver is declared; one which omits mesh likewise fails citing
\* the mesh when no mesh is declared; and one whose Ms and m0 are valid and
\* which omits both while an evolver and a mesh are declared registers the
\* driver on the first declared evolver of the mode it requires.
C12_DefaultEvolverAndMesh ==
    [][(/\ ncalls' = ncalls + 1
        /\ last'.fn \in {"TimeDriver", "MinDriver"}
        /\ ~last'.preFailed
        /\ ~last'.dup)
       => LET kwargs == last'.kwargs
          IN  /\ (~Has(kwargs, "evolver") /\ mif.evolvers = <<>>)
                     => /\ last'.raised.type = "MIFException"
                        /\ last'.raised.parameter = "evolver"
                        /\ ~file'.exists
              /\ (~Has(kwargs, "evolver") /\ mif.evolvers # <<>>
                  /\ ~Has(kwargs, "mesh") /\ mif.meshes = <<>>)
                     => /\ last'.raised.type = "MIFException"
                        /\ last'.raised.parameter = "mesh"
                        /\ ~file'.exists
              /\ (/\ DOMAIN kwargs \subseteq {"Ms", "m0", "name"}
                  /\ mif.evolvers # <<>> /\ mif.meshes # <<>>
                  /\ Has(kwargs, "Ms") /\ kwargs["Ms"] \in mif.scalarFields
                  /\ Has(kwargs, "m0") /\ kwargs["m0"] \in mif.vectorFields)
                     => /\ Len(mif'.drivers) > Len(mif.drivers)
                        /\ BoundEvolver(last'.fn, mif, kwargs)
                               = FirstOfMode(mif, RequiredMode(last'.fn))]_vars

\* the steps of the axes, in the order x, y, z, that do not divide the
\* extent c = <<xmin, xmax, ymin, ymax, zmin, zmax>> exactly
Offending(c, cellsize) ==
    SelectSeq(<<"xstep", "ystep", "zstep">>,
              LAMBDA axis :
                  LET i == CHOOSE k \in 1..3 : <<"xstep", "ystep", "zstep">>[k] = axis
                  IN  (c[2 * i] - c[2 * i - 1]) % cellsize[i] # 0)

C14_SecondMeshIsWarning ==
    [][(/\ ncalls' = ncalls + 1
        /\ last'.fn = "RectangularMesh"
        /\ ~last'.preFailed /\ ~last'.dup
        /\ mif.meshes # <<>>
        /\ Has(last'.kwargs, "cellsize") /\ Len(last'.kwargs["cellsize"]) = 3
        /\ Has(last'.kwargs, "atlas")
        /\ last'.kwargs["atlas"] \in mif.atlases \cap DOMAIN mif.atlasCoords
        /\ Offending(mif.atlasCoords[last'.kwargs["atlas"]], last'.kwargs["cellsize"]) = <<>>)
       => /\ last'.raised = NoExc
          /\ mif'.meshes = Append(mif.meshes, last'.name)
          /\ file'.exists
          /\ Len(file'.text) = Len(file.text) + 1
          /\ ~mif'.hasFailed]_vars

\* the options each method's docstring lists under "Mandatory"; a set of
\* alternatives ("A or lex") is one group, and Schedule's "stage AND/OR
\* step" is the group of the two
Mandatory(fn) ==
    CASE fn = "BoxAtlas" -> {{"xrange"}, {"yrange"}, {"zrange"}}
      [] fn = "ImageAtlas" -> {{"xrange"}, {"yrange"}, {"zrange"}, {"viewplane"}, {"image"},
                               {"colormap"}}
      [] fn = "RectangularMesh" -> {{"cellsize"}, {"atlas"}}
      [] fn = "UniformExchange" -> {{"A", "lex"}}
      [] fn = "StageZeeman" -> {{"script", "files"}}
      [] fn \in {"TimeDriver", "MinDriver"} -> {{"Ms"}, {"m0"}}
      [] fn = "UniformScalarField" -> {{"value"}}
      [] fn = "Proc" -> {{"args"}, {"lines"}}
      [] fn = "ScriptVectorField" -> {{"script"}}
      [] fn = "RandomVectorField" -> {{"min_norm"}, {"max_norm"}}
      [] fn = "MaskVectorField" -> {{"mask"}, {"field"}}
      [] fn = "Destination" -> {{"label"}, {"type"}}
      [] fn = "Schedule" -> {{"output"}, {"label"}, {"stage", "step"}}
      [] OTHER -> {}

\* the mandatory options a call leaves out
Missing(fn, kwargs) == UNION {g \in Mandatory(fn) : g \cap DOMAIN kwargs = {}}

\* C15 as stated: a call on a session that has not failed which omits an
\* option its constructor documents as mandatory, and in which the
\* constructor finds no other fault first, gives the caller a MIFException
\* whose parameter is an omitted option, and afterwards the file does not
\* exist and hasFailed is true.
C15_MissingMandatoryOption ==
    (/\ ~last.preFailed /\ ~last.dup
     /\ Missing(last.fn, last.kwargs) # {}
     /\ ~(/\ last.body.type = "MIFException"
          /\ last.body.parameter \notin Missing(last.fn, last.kwargs)))
    => /\ last.raised.type = "MIFException"
       /\ last.raised.parameter \in Missing(last.fn, last.kwargs)
       /\ ~file.exists
       /\ mif.hasFailed

\* C16: self.destinations grows only in a Destination call that returns, by
\* the label of that call; a Schedule call on a session that has not failed
\* returns only if its label is in self.destinations, and one that gives an
\* output and a label that is not there gets the undefined-destination
\* MIFException, leaves the scheduled flag as it was and the file deleted.
C16_ScheduleNeedsDestination ==
    [][/\ mif'.destinations # mif.destinations
            => /\ last'.fn = "Destination"
               /\ ~last'.preFailed
               /\ last'.raised = NoExc
               /\ mif'.destinations = mif.destinations \cup {last'.kwargs["label"]}
       /\ (ncalls' = ncalls + 1 /\ last'.fn = "Schedule" /\ ~last'.preFailed)
            => /\ last'.raised = NoExc
                    => /\ Has(last'.kwargs, "label")
                       /\ last'.kwargs["label"] \in mif.destinations
               /\ (/\ Has(last'.kwargs, "output")
                   /\ Has(last'.kwargs, "label")
                   /\ last'.kwargs["label"] \notin mif.destinations)
                    => /\ last'.raised = UndefTokenMIFException("label", "destination")
                       /\ mif'.scheduled = mif.scheduled
                       /\ ~file'.exists]_vars

C16_Witness ==
    /\ last.fn = "Schedule"
    /\ ~last.preFailed
    /\ last.raised = NoExc
    /\ last.kwargs["label"] \in mif.destinations
    /\ mif.scheduled
    /\ file.exists

\* a step that is a call of fn on a session that has not failed, and returns
Succeeds(fn) ==
    /\ ncalls' = ncalls + 1
    /\ last'.fn = fn
    /\ ~last'.preFailed
    /\ last'.raised = NoExc

NoOutput == "Simulation has not configured any output"

\* C17: self.destinations is empty until a Destination call succeeds and
\* never empty afterwards, self.scheduled is false until a Schedule call
\* succeeds and true afterwards; and when the with-block ends without an
\* exception on a session that has not failed, validate warns that no output
\* is configured exactly when self.destinations is empty or self.scheduled
\* is false, so never when a Schedule call has succeeded.
C17_NoOutputWarning ==
    [][/\ (mif.destinations = {} /\ mif'.destinations # {}) => Succeeds("Destination")
       /\ Succeeds("Destination") => mif'.destinations # {}
       /\ mif.destinations # {} => mif'.destinations # {}
       /\ (~mif.scheduled /\ mif'.scheduled) => Succeeds("Schedule")
       /\ Succeeds("Schedule") => mif'.scheduled
       /\ mif.scheduled => mif'.scheduled /\ mif'.destinations # {}
       /\ (pc = "with" /\ pc' = "exited" /\ exit'.type = "none" /\ ~mif.hasFailed)
            => /\ exit'.validated
               /\ NoOutput \in exit'.warnings <=> (mif.destinations = {} \/ ~mif.scheduled)
               /\ mif.scheduled => NoOutput \notin exit'.warnings]_vars

C17_Witness ==
    /\ pc = "exited"
    /\ exit.type = "none"
    /\ exit.validated
    /\ mif.scheduled
    /\ mif.destinations = {"archive"}
    /\ NoOutput \notin exit.warnings

\* the options of a method whose value is the name of a region, a field or
\* an evolver
References(fn) ==
    CASE fn = "RectangularMesh" -> {"atlas"}
      [] fn = "MaskVectorField" -> {"mask", "field"}
      [] fn \in {"TimeDriver", "MinDriver"} -> {"Ms", "m0", "evolver"}
      [] OTHER -> {}

\* C18 as stated: after a call that returned on a session that had not
\* failed, every region, field or evolver the call named in an argument is
\* in self.labelsUsed, and so is the first declared evolver when the call
\* was a driver's and named none.
C18_ReferencesAreUsed ==
    (last.raised = NoExc /\ ~last.preFailed)
    => /\ \A k \in References(last.fn) \cap DOMAIN last.kwargs :
              last.kwargs[k] \in mif.labelsUsed
       /\ (last.fn \in {"TimeDriver", "MinDriver"} /\ ~Has(last.kwargs, "evolver"))
              => mif.evolvers[1][1] \in mif.labelsUsed

\* C19 as stated: when the with-block has ended with an exception of any
\* type leaving it, or on a session that has failed, validate made no check
\* and printed no warning.
C19_FinalizerOnlyOnCleanClose ==
    (pc = "exited" /\ (exit.type # "none" \/ mif.hasFailed))
        => (~exit.validated /\ exit.warnings = {})

\* C20 as stated: whenever __exit__ has returned True, suppressing the
\* exception that left the with-block, hasFailed is true and the file does
\* not exist.
C20_SuppressionKeepsFailure ==
    (pc = "exited" /\ exit.suppressed) => (mif.hasFailed /\ ~file.exists)

\* the methods that register the block they write, and where
RegistryOf(self, fn) ==
    CASE fn \in {"BoxAtlas", "ImageAtlas"} -> self.atlases
      [] fn = "RectangularMesh" -> MeshNames(self)
      [] fn = "UniformScalarField" -> self.scalarFields
      [] fn \in {"RandomVectorField", "MaskVectorField", "ScriptVectorField"} -> self.vectorFields
      [] fn = "Proc" -> self.scripts
      [] fn = "EulerEvolve" -> EvolverNames(self)
      [] fn \in {"TimeDriver", "MinDriver"} -> DriverNames(self)
      [] OTHER -> self.reservedLabels

\* L_k for k >= 2, and L itself for k = 1
Suffixed(L, k) == IF k = 1 THEN L ELSE L \o "_" \o ToString(k)

\* C21: a call of a block method that passes no name never gets the
\* duplicate-name error; the name it is given is L_k (L for k = 1) for the
\* smallest k >= 1 whose name was not reserved, and it is reserved
\* afterwards; and when the call returns on a session that had not failed,
\* that name is the value returned and the name in the method's registry.
C21_InferredName ==
    [][(/\ ncalls' = ncalls + 1
        /\ ~Has(last'.kwargs, "name")
        /\ ~Flag(last'.kwargs, "_noName"))
       => /\ last'.raised # Duplicate
          /\ \E k \in 1..(Cardinality(mif.reservedLabels) + 1) :
                 /\ last'.name = Suffixed(last'.fn, k)
                 /\ last'.name \notin mif.reservedLabels
                 /\ \A j \in 1..(k - 1) : Suffixed(last'.fn, j) \in mif.reservedLabels
          /\ mif'.reservedLabels = mif.reservedLabels \cup {last'.name}
          /\ (last'.raised = NoExc /\ ~last'.preFailed)
                 => /\ last'.value = last'.name
                    /\ last'.name \in RegistryOf(mif', last'.fn)]_vars

C21_Witness ==
    /\ last.fn = "BoxAtlas"
    /\ ~Has(last.kwargs, "name")
    /\ last.name = "BoxAtlas_3"
    /\ last.value = "BoxAtlas_3"
    /\ {"BoxAtlas", "BoxAtlas_2", "BoxAtlas_3"} \subseteq mif.atlases

\* C22: a call or the exit on one object leaves the attributes and the file
\* of the other object as they were; and what a call on the second object
\* does with names depends on the names reserved in that object only: a
\* name given is rejected as a duplicate only if reserved there, and a name
\* inferred is fn itself when fn is not reserved there.
C22_SessionsIsolated ==
    [][/\ other' # other => (mif' = mif /\ file' = file)
       /\ (ncalls' # ncalls \/ pc' # pc)
            => (other'.mif = other.mif /\ other'.file = other.file)
       /\ other'.ncalls # other.ncalls
            => LET call == other'.last
               IN  /\ (Has(call.kwargs, "name")
                       /\ call.kwargs["name"] \notin other.mif.reservedLabels)
                          => call.raised # Duplicate
                   /\ (~Has(call.kwargs, "name") /\ call.fn \notin other.mif.reservedLabels)
                          => call.name = call.fn]_vars

C22_Witness ==
    /\ "a" \in mif.atlases
    /\ "a" \in other.mif.atlases
    /\ mif.hasFailed
    /\ ~file.exists
    /\ ~other.mif.hasFailed
    /\ other.file.exists

\* the calls that follow the four declarations in the end-to-end sequence
EndToEnd ==
    << [fn |-> "EulerEvolve", kwargs |-> NoArgs],
       [fn |-> "TimeDriver", kwargs |-> Driver],
       [fn |-> "Destination", kwargs |-> NonBlock(NoPad(Archive))],
       [fn |-> "Schedule", kwargs |-> NonBlock(NoPad(EachStage))] >>

\* the session is where the first k of these calls leave it: every call so
\* far has written its block and the padding after it, and the evolver, the driver, the destination
\* and the schedule are there as far as the sequence has got
OnPath(k) ==
    /\ ncalls = Declared.ncalls + k
    /\ ~mif.hasFailed
    /\ file.exists
    /\ Len(file.text) = 2 * ncalls + 1
    /\ mif.atlases = {"BoxAtlas"}
    /\ mif.meshes = <<"RectangularMesh">>
    /\ mif.scalarFields = {"UniformScalarField"}
    /\ mif.vectorFields = {"RandomVectorField"}
    /\ mif.evolvers = IF k >= 1 THEN << <<"EulerEvolve", "TIME">> >> ELSE <<>>
    /\ mif.drivers = IF k >= 2 THEN <<"TimeDriver">> ELSE <<>>
    /\ mif.destinations = IF k >= 3 THEN {"archive"} ELSE {}
    /\ mif.scheduled = (k >= 4)

\* str begins with prefix
StartsWith(str, prefix) ==
    Len(str) >= Len(prefix) /\ SubSeq(str, 1, Len(prefix)) = prefix

\* C23: the session after the region, the mesh, the scalar field and the
\* vector field has not failed, each of the four calls has returned its name
\* and the file holds the header and their four blocks in call order; from
\* there each next call of the sequence (EulerEvolve, TimeDriver with evolver
\* and mesh defaulted, Destination, Schedule) returns, a block call with its
\* name, and appends its text to the file without failing the session; and
\* the clean exit that follows runs validate without the warning that no
\* output is configured.
C23_EndToEnd ==
    [][/\ OnPath(0)
            => /\ returned = {"BoxAtlas", "RectangularMesh", "UniformScalarField",
                              "RandomVectorField"}
               /\ file.text[1] = Header
               /\ StartsWith(file.text[2], "Specify Oxs_BoxAtlas:BoxAtlas {")
               /\ StartsWith(file.text[4], "Specify Oxs_RectangularMesh:RectangularMesh {")
               /\ StartsWith(file.text[6], "Specify Oxs_UniformScalarField:UniformScalarField {")
               /\ StartsWith(file.text[8], "Specify Oxs_RandomVectorField:RandomVectorField {")
       /\ \A k \in DOMAIN EndToEnd :
              (/\ OnPath(k - 1)
               /\ ncalls' = ncalls + 1
               /\ last'.fn = EndToEnd[k].fn
               /\ last'.kwargs = EndToEnd[k].kwargs)
              => /\ OnPath(k)'
                 /\ last'.raised = NoExc
                 /\ SubSeq(file'.text, 1, Len(file.text)) = file.text
                 /\ k <= 2 => /\ last'.value = last'.fn
                              /\ StartsWith(file'.text[Len(file'.text) - 1],
                                            "Specify Oxs_" \o last'.fn \o ":" \o last'.fn \o " {")
                 /\ k > 2 => StartsWith(file'.text[Len(file'.text) - 1], last'.fn \o " ")
       /\ (OnPath(Len(EndToEnd)) /\ pc = "with" /\ pc' = "exited" /\ exit'.type = "none")
              => /\ exit'.validated
                 /\ NoOutput \notin exit'.warnings
                 /\ file'.exists
                 /\ ~mif'.hasFailed]_vars

C23_Witness ==
    /\ pc = "exited"
    /\ exit.type = "none"
    /\ OnPath(Len(EndToEnd))
    /\ returned = {"BoxAtlas", "RectangularMesh", "UniformScalarField", "RandomVectorField",
                   "EulerEvolve", "TimeDriver"}
    /\ exit.warnings = {}

\* C24: a BoxAtlas call whose three ranges unpack gets through
\* quickValidateExtent exactly when min <= max on each axis, equal bounds
\* included, and otherwise the MIFException names the first axis, in the
\* order x, y, z, whose min exceeds its max.
C24_ValidateExtent ==
    (/\ last.fn = "BoxAtlas"
     /\ ~last.preFailed
     /\ ~last.dup
     /\ RangesExc(last.kwargs).type = "none")
    => LET c == Coords(last.kwargs)
       IN  /\ (last.body = NoExc) <=> (c[1] <= c[2] /\ c[3] <= c[4] /\ c[5] <= c[6])
           /\ c[1] > c[2] => last.body = MIFException("xmin, xmax", "invalid")
           /\ (c[1] <= c[2] /\ c[3] > c[4])
                  => last.body = MIFException("ymin, ymax", "invalid")
           /\ (c[1] <= c[2] /\ c[3] <= c[4] /\ c[5] > c[6])
                  => last.body = MIFException("zmin, zmax", "invalid")

\* a box with xmin = xmax has been accepted, and a later box with y and z
\* both inverted is refused for y
C24_Witness ==
    /\ \E a \in mif.atlases \cap DOMAIN mif.atlasCoords :
           mif.atlasCoords[a][1] = mif.atlasCoords[a][2]
    /\ last.fn = "BoxAtlas"
    /\ ~last.preFailed
    /\ Coords(last.kwargs)[1] <= Coords(last.kwargs)[2]
    /\ Coords(last.kwargs)[3] > Coords(last.kwargs)[4]
    /\ Coords(last.kwargs)[5] > Coords(last.kwargs)[6]
    /\ last.body = MIFException("ymin, ymax", "invalid")

\* C25: a call made in an unfailed session whose body fails on a missing
\* option (KeyError) or on an invalid value or an undefined reference
\* (MIFException) leaves reservedLabels, labelsUsed and every per-kind
\* registry as they were before the call.
C25_FailedCallRegistersNothing ==
    [][(/\ ncalls' = ncalls + 1
        /\ ~last'.preFailed
        /\ last'.body.type \in {"KeyError", "MIFException"})
       => /\ mif'.reservedLabels = mif.reservedLabels
          /\ mif'.labelsUsed = mif.labelsUsed
          /\ Registries(mif') = Registries(mif)
          /\ mif'.destinations = mif.destinations]_vars

\* C26: a call made in a session that has failed leaves reservedLabels,
\* labelsUsed, every per-kind registry, the destinations, scheduled and
\* hasFailed unchanged.
C26_FailedSessionCallIsNoOp ==
    [][(ncalls' = ncalls + 1 /\ mif.hasFailed)
       => /\ mif'.reservedLabels = mif.reservedLabels
          /\ mif'.labelsUsed = mif.labelsUsed
          /\ Registries(mif') = Registries(mif)
          /\ mif'.destinations = mif.destinations
          /\ mif'.scheduled = mif.scheduled
          /\ mif'.hasFailed = mif.hasFailed]_vars

\* C27: an EulerEvolve or CGEvolve call with fixed_spins = (atlas, regions)
\* that is accepted names a declared atlas, and every listed region is a
\* region of that atlas; so with an undeclared atlas the call fails, for the
\* empty region list too.
C27_FixedSpinsNeedDeclaredAtlas ==
    (/\ last.fn \in {"EulerEvolve", "CGEvolve"}
     /\ Has(last.kwargs, "fixed_spins")
     /\ ~last.preFailed
     /\ last.raised = NoExc)
    => /\ last.kwargs["fixed_spins"][1] \in mif.atlases
       /\ \A i \in 2..Len(last.kwargs["fixed_spins"]) :
              Elements(last.kwargs["fixed_spins"][i])
                  \subseteq RegionsOf(mif, last.kwargs["fixed_spins"][1])

\* C28 as stated: the recorded bounding box of every region has xmin < xmax,
\* ymin < ymax and zmin < zmax.
C28_RegionsStrictlyOrdered ==
    \A a \in DOMAIN mif.atlasCoords :
        LET c == mif.atlasCoords[a]
        IN  c[1] < c[2] /\ c[3] < c[4] /\ c[5] < c[6]

\* C28, amended: the recorded bounding box of every region has xmin <= xmax,
\* ymin <= ymax and zmin <= zmax; an axis of length zero is recorded.
C28_RegionsOrdered ==
    \A a \in DOMAIN mif.atlasCoords :
        LET c == mif.atlasCoords[a]
        IN  c[1] <= c[2] /\ c[3] <= c[4] /\ c[5] <= c[6]

\* a box atlas and a multi-atlas over it are recorded, one of them with an
\* axis of length zero
C28_Witness ==
    /\ {"BoxAtlas", "MultiAtlas"} \subseteq DOMAIN mif.atlasCoords
    /\ \E a \in DOMAIN mif.atlasCoords : mif.atlasCoords[a][3] = mif.atlasCoords[a][4]
    /\ mif.atlasCoords["BoxAtlas"] # mif.atlasCoords["MultiAtlas"]

\* C29: a RectangularMesh call on a recorded region with an axis of length
\* zero either registers the mesh and returns its name, or is refused with a
\* MIFException, the session failed and the file removed.
C29_MeshOnFlatRegion ==
    (/\ last.fn = "RectangularMesh"
     /\ ~last.preFailed
     /\ last.kwargs["atlas"] \in DOMAIN mif.atlasCoords
     /\ LET c == mif.atlasCoords[last.kwargs["atlas"]]
        IN  c[1] = c[2] \/ c[3] = c[4] \/ c[5] = c[6])
    => \/ /\ last.raised = NoExc
          /\ last.value = last.name
          /\ last.name \in MeshNames(mif)
       \/ /\ last.raised.type = "MIFException"
          /\ mif.hasFailed
          /\ ~file.exists

\* C30: after the with-block has ended without an exception, in a session
\* that has not failed, and __exit__ has run validate, a call changes
\* neither the file nor the registries nor the reserved names.
C30_ClosedIsTerminal ==
    [][(/\ pc = "exited"
        /\ exit.type = "none"
        /\ exit.validated
        /\ ~mif.hasFailed
        /\ ncalls' = ncalls + 1)
       => /\ file' = file
          /\ Registries(mif') = Registries(mif)
          /\ mif'.reservedLabels = mif.reservedLabels]_vars

\* the first characters of the text a successful call writes
BlockHead(l) ==
    IF l.fn = "Proc" THEN "proc " \o l.name \o " {"
    ELSE IF l.fn \in {"Destination", "Schedule"} THEN l.fn \o " "
    ELSE "Specify Oxs_" \o l.fn \o ":" \o l.name \o " {"

\* C31: while the session has not failed the file exists and begins with the
\* header; a successful call appends its one block and the padding after it
\* to the text the file held, and a step that is no successful call (a call
\* that raises, the end of the with-block) leaves the file as it was.
C31_FileAppendOnly ==
    [][~mif'.hasFailed
       => /\ file'.exists
          /\ file'.text[1] = Header
          /\ IF ncalls' = ncalls + 1 /\ last'.raised = NoExc
             THEN /\ Len(file'.text) = Len(file.text) + 2
                  /\ SubSeq(file'.text, 1, Len(file.text)) = file.text
                  /\ \/ StartsWith(file'.text[Len(file.text) + 1], BlockHead(last'))
                     \* a Schedule with neither stage nor step has no lines
                     \/ last'.fn = "Schedule" /\ file'.text[Len(file.text) + 1] = ""
                  /\ file'.text[Len(file.text) + 2] \in {"\n", "\n\n\n"}
             ELSE file' = file]_vars

\* two calls have written their blocks and a third has raised without
\* failing the session
C31_Witness ==
    /\ ~mif.hasFailed
    /\ ncalls = 3
    /\ last.raised # NoExc
    /\ Len(file.text) = 5
    /\ file.text[1] = Header

\* C32: in a session with a region, a mesh, a scalar field and a vector
\* field, a CGEvolve call with default or valid options returns its name and
\* registers an evolver tagged MINIMIZING without failing the session, and a
\* MinDriver call with Ms and m0 after it, with or without naming that
\* evolver, returns its name and registers a driver.
C32_MinimizingSimulation ==
    /\ (/\ last.fn = "CGEvolve"
        /\ ~last.preFailed
        /\ ~last.dup
        /\ Has(last.kwargs, "method") => last.kwargs["method"] \in {"Fletcher-Reeves", "Polak-Ribiere"})
       => /\ last.raised = NoExc
          /\ last.value = last.name
          /\ \E i \in DOMAIN mif.evolvers : mif.evolvers[i] = <<last.name, "MINIMIZING">>
          /\ ~mif.hasFailed
    /\ (/\ last.fn = "MinDriver"
        /\ ~last.preFailed
        /\ ~last.dup
        /\ \E i \in DOMAIN mif.evolvers : mif.evolvers[i][2] = "MINIMIZING"
        /\ DOMAIN last.kwargs \subseteq {"Ms", "m0", "evolver", "name"}
        /\ {"Ms", "m0"} \subseteq DOMAIN last.kwargs
        /\ last.kwargs["Ms"] \in mif.scalarFields
        /\ last.kwargs["m0"] \in mif.vectorFields
        /\ Has(last.kwargs, "evolver")
               => \E i \in DOMAIN mif.evolvers :
                      mif.evolvers[i] = <<last.kwargs["evolver"], "MINIMIZING">>)
       => /\ last.raised = NoExc
          /\ last.name \in DriverNames(mif)
          /\ ~mif.hasFailed

C34_RegionImmutable ==
    [][\A a \in mif.atlases \cap DOMAIN mif.atlasCoords :
           /\ a \in mif'.atlases
           /\ a \in DOMAIN mif'.atlasCoords
           /\ mif'.atlasCoords[a] = mif.atlasCoords[a]
           /\ RegionsOf(mif', a) = RegionsOf(mif, a)]_vars

\* a box, a multi-atlas over it and a mesh on the box have been declared
C34_Witness ==
    /\ {"BoxAtlas", "MultiAtlas"} \subseteq mif.atlases \cap DOMAIN mif.atlasCoords
    /\ "BoxAtlas" \in RegionsOf(mif, "MultiAtlas")
    /\ RegionsOf(mif, "BoxAtlas") = {}
    /\ last.fn = "RectangularMesh"
    /\ last.kwargs["atlas"] = "BoxAtlas"
    /\ last.raised = NoExc
    /\ mif.meshes = <<"RectangularMesh">>

\* what the inner call of a composed constructor gives
InnerCall(fn, self, f, name, kwargs) ==
    IF fn = "RungeKuttaEvolve" THEN EulerFragment(self, f, name, kwargs)
    ELSE IF fn = "SpinXferEvolve" THEN RungeKuttaFragment(self, f, kwargs)
    ELSE RandomFragment(self, f, kwargs)

\* C35: in a call of RungeKuttaEvolve, SpinXferEvolve or
\* PlaneRandomVectorField the inner call of the more general constructor
\* returns no name and leaves the reserved names, the file and every
\* registry as the outer naming step left them; and when the composed call
\* succeeds it has reserved exactly one new name, appended exactly one block,
\* headed by the outer kind and name, and added exactly one entry, under that
\* name, to the evolvers or to the vector fields.
C35_FragmentComposition ==
    [][(/\ ncalls' = ncalls + 1
        /\ last'.fn \in {"RungeKuttaEvolve", "SpinXferEvolve", "PlaneRandomVectorField"}
        /\ ~last'.preFailed
        /\ ~last'.dup)
       => LET s == Naming(last'.fn, mif, last'.kwargs).self
              i == InnerCall(last'.fn, s, file, last'.name, Pop(last'.kwargs, "name"))
          IN  /\ i.value = None
              /\ i.file = file
              /\ i.self.reservedLabels = s.reservedLabels
              /\ Registries(i.self) = Registries(s)
              /\ last'.raised = NoExc
                     => /\ last'.name \notin mif.reservedLabels
                        /\ mif'.reservedLabels = mif.reservedLabels \cup {last'.name}
                        /\ Len(file'.text) = Len(file.text) + 2
                        /\ SubSeq(file'.text, 1, Len(file.text)) = file.text
                        /\ StartsWith(file'.text[Len(file.text) + 1], BlockHead(last'))
                        /\ IF last'.fn = "PlaneRandomVectorField"
                           THEN /\ last'.name \notin mif.vectorFields
                                /\ mif'.vectorFields = mif.vectorFields \cup {last'.name}
                                /\ mif'.evolvers = mif.evolvers
                           ELSE /\ mif'.evolvers = Append(mif.evolvers, <<last'.name, "TIME">>)
                                /\ mif'.vectorFields = mif.vectorFields]_vars

\* a SpinXferEvolve named by the caller has been built on RungeKuttaEvolve on
\* EulerEvolve, after a RungeKuttaEvolve of its own
C35_Witness ==
    /\ last.fn = "SpinXferEvolve"
    /\ last.name = "rk"
    /\ last.raised = NoExc
    /\ ~last.preFailed
    /\ mif.evolvers = << <<"RungeKuttaEvolve", "TIME">>, <<"rk", "TIME">> >>
    /\ mif.reservedLabels = {"RungeKuttaEvolve", "rk"}
    /\ Len(file.text) = 5

\* C36: a Schedule call that gives neither stage nor step raises and leaves
\* scheduled as it was, and while the file exists scheduled is set only if
\* the file holds a Schedule line.
C36_ScheduleNeedsCadence ==
    /\ (/\ last.fn = "Schedule"
        /\ ~last.preFailed
        /\ ~Has(last.kwargs, "stage")
        /\ ~Has(last.kwargs, "step"))
       => last.raised # NoExc
    /\ (mif.scheduled /\ file.exists)
       => \E i \in DOMAIN file.text : StartsWith(file.text[i], "Schedule ")

\* C37: a TimeDriver call with stage_count_check set, in a session with a
\* TIME evolver, a mesh, its two fields and at least one recorded stage
\* count, fails with a MIFException and the file removed when its
\* stage_count is below the largest recorded count, and otherwise returns
\* its name, registers the driver and leaves the session unfailed.
C37_StageCountCheck ==
    (/\ last.fn = "TimeDriver"
     /\ ~last.preFailed
     /\ ~last.dup
     /\ mif.evolvers # <<>>
     /\ mif.stageCounts # {}
     /\ Has(last.kwargs, "stage_count_check")
     /\ last.kwargs["stage_count_check"] = 1
     /\ Has(last.kwargs, "stage_count")
     /\ last.kwargs["stage_count"] > 0)
    => IF last.kwargs["stage_count"] < SetMax(mif.stageCounts)
       THEN /\ last.raised.type = "MIFException"
            /\ last.raised.parameter = "stage_count"
            /\ mif.hasFailed
            /\ ~file.exists
       ELSE /\ last.raised = NoExc
            /\ last.value = last.name
            /\ last.name \in DriverNames(mif)
            /\ ~mif.hasFailed

\* C38: in every reachable state of a session that has not failed, every
\* name in labelsUsed is in reservedLabels, the names declared so far.
C38_UsedNamesAreDeclared ==
    ~mif.hasFailed => mif.labelsUsed \subseteq mif.reservedLabels

\* C39: in every reachable state of a session that has not failed, each
\* name in atlases has an entry in atlasCoords.
C39_RegionsHaveCoords ==
    ~mif.hasFailed => mif.atlases \subseteq DOMAIN mif.atlasCoords
====
